---- MODULE Spec2Model ----
(***************************************************************************)
(* A model of Hopper's reader pipeline: the BookPanel and its describeFile *)
(* cache (app/book-panel.ts, app/ai-prose.ts), the structural extractor    *)
(* (app/file-structure.ts), the outline builder (app/book-structure.ts)    *)
(* and the concept classifier (app/concept-panel.ts, app/concepts.ts).     *)
(***************************************************************************)
EXTENDS Integers, Sequences, FiniteSets, TLC

VARIABLES
    \* ---- BookPanel / describeFile ----
    requestId,      \* BookPanel.requestId
    display,        \* what BookPanel.container shows
    symbolCodeMap,  \* BookPanel.symbolCodeMap
    viewDoc,        \* the document held by the shared EditorView
    cache,          \* ai-prose.ts: cache (key -> text)
    procs,          \* one record per BookPanel.update invocation
    sent,           \* requests handed to window.ai.describe, in order
    \* ---- extractFileStructure ----
    xin,            \* the input of the extraction: tree, doc, filename
    xpc,            \* position of the running extraction
    xcur,           \* walkJsNodes: index of the top-level node to visit next
    xseen,          \* extractSvelteNodes: the `seen` set
    structure,      \* the FileStructure being filled
    runs,           \* FileStructures returned so far, in order
    \* ---- buildOutline ----
    oin,            \* the input of buildOutline: structure and doc
    opc,            \* position of buildOutline
    nextId,         \* buildOutline: nextId
    nodeMap,        \* buildOutline: nodeMap (id -> NodeEntry)
    lines,          \* buildOutline: lines
    todo,           \* buildOutline: the walkNode calls still to be made, in order
    \* ---- extractConcepts ----
    cin,            \* the input of extractConcepts: tree and doc
    cpc,            \* tree.iterate: the number of the node to enter next
    instances,      \* extractConcepts: instances
    tip,            \* the last hover: its position and the tooltip it resolved to
    \* ---- TemplateProse.annotateFile ----
    pin,            \* the input of annotateFile: structure and doc
    ppc,            \* position of annotateFile
    pnext,          \* annotateFile: index of the declaration to annotate next
    annotated       \* the AnnotatedFile being built

panelVars == <<requestId, display, symbolCodeMap, viewDoc, cache, procs, sent>>
extractVars == <<xin, xpc, xcur, xseen, structure, runs>>
outlineVars == <<oin, opc, nextId, nodeMap, lines, todo>>
conceptVars == <<cin, cpc, instances, tip>>
proseVars == <<pin, ppc, pnext, annotated>>
vars == <<panelVars, extractVars, outlineVars, conceptVars, proseVars>>

None == "none"

-----------------------------------------------------------------------------
(* Bounds of the model *)

MaxUpdates == 3

-----------------------------------------------------------------------------
(***************************************************************************)
(* Text.  A document is a sequence of one-character strings; offsets count *)
(* from 0 as in the source.                                                *)
(***************************************************************************)

Min(a, b) == IF a < b THEN a ELSE b
Max(a, b) == IF a > b THEN a ELSE b

\* doc.sliceString(from, to) and String.prototype.slice(from, to), 0 <= from
sliceString(doc, from, to) ==
    SubSeq(doc, Min(from, Len(doc)) + 1, Min(to, Len(doc)))

Whitespace == {" ", "\n", "\t"}

\* \w
WordChars ==
    {"a", "b", "c", "d", "e", "f", "g", "h", "i", "j", "k", "l", "m",
     "n", "o", "p", "q", "r", "s", "t", "u", "v", "w", "x", "y", "z",
     "A", "B", "C", "D", "E", "F", "G", "H", "I", "J", "K", "L", "M",
     "N", "O", "P", "Q", "R", "S", "T", "U", "V", "W", "X", "Y", "Z",
     "0", "1", "2", "3", "4", "5", "6", "7", "8", "9", "_"}

\* the index of the first character of s that is in set cs, or Len(s) + 1
FirstIn(s, cs) ==
    IF \E i \in 1..Len(s) : s[i] \in cs
    THEN CHOOSE i \in 1..Len(s) : s[i] \in cs /\ \A j \in 1..(i - 1) : s[j] \notin cs
    ELSE Len(s) + 1

\* the index of the last character of s that is in set cs, or 0
LastIn(s, cs) ==
    IF \E i \in 1..Len(s) : s[i] \in cs
    THEN CHOOSE i \in 1..Len(s) : s[i] \in cs /\ \A j \in (i + 1)..Len(s) : s[j] \notin cs
    ELSE 0

\* s.split(c)[0] for the separators in cs
BeforeFirst(s, cs) == SubSeq(s, 1, FirstIn(s, cs) - 1)

\* s.split(c).pop()
AfterLast(s, cs) == SubSeq(s, LastIn(s, cs) + 1, Len(s))

\* s.trimStart(), s.trim()
TrimStart(s) == SubSeq(s, FirstIn(s, {s[i] : i \in 1..Len(s)} \ Whitespace), Len(s))
TrimEnd(s) == SubSeq(s, 1, LastIn(s, {s[i] : i \in 1..Len(s)} \ Whitespace))
Trim(s) == TrimEnd(TrimStart(s))

\* s.startsWith(w)
StartsWith(s, w) == Len(s) >= Len(w) /\ SubSeq(s, 1, Len(w)) = w

\* s.length > limit ? s.slice(0, keep) + "..." : s
Ellipsis(s, limit, keep) ==
    IF Len(s) > limit THEN SubSeq(s, 1, keep) \o <<".", ".", ".">> ELSE s

\* the characters of the words the source texts below are made of
Chars ==
       ("function" :> <<"f", "u", "n", "c", "t", "i", "o", "n">>)
    @@ ("async" :> <<"a", "s", "y", "n", "c">>)
    @@ ("export" :> <<"e", "x", "p", "o", "r", "t">>)
    @@ ("import" :> <<"i", "m", "p", "o", "r", "t">>)
    @@ ("from" :> <<"f", "r", "o", "m">>)
    @@ ("const" :> <<"c", "o", "n", "s", "t">>)
    @@ ("class" :> <<"c", "l", "a", "s", "s">>)
    @@ ("if" :> <<"i", "f">>)
    @@ ("for" :> <<"f", "o", "r">>)
    @@ ("return" :> <<"r", "e", "t", "u", "r", "n">>)
    @@ ("def" :> <<"d", "e", "f">>)
    @@ ("fn" :> <<"f", "n">>)
    @@ ("use" :> <<"u", "s", "e">>)
    @@ ("struct" :> <<"s", "t", "r", "u", "c", "t">>)
    @@ ("(" :> <<"(">>)
    @@ (")" :> <<")">>)
    @@ ("{" :> <<"{">>)
    @@ ("}" :> <<"}">>)
    @@ ("," :> <<",">>)
    @@ (";" :> <<";">>)
    @@ ("." :> <<".">>)
    @@ ("=" :> <<"=">>)
    @@ (":" :> <<":">>)
    @@ ("=>" :> <<"=", ">">>)
    @@ ("<" :> <<"<">>)
    @@ ("js" :> <<"j", "s">>)
    @@ ("ts" :> <<"t", "s">>)
    @@ ("jsx" :> <<"j", "s", "x">>)
    @@ ("tsx" :> <<"t", "s", "x">>)
    @@ ("mjs" :> <<"m", "j", "s">>)
    @@ ("py" :> <<"p", "y">>)
    @@ ("rs" :> <<"r", "s">>)
    @@ ("svelte" :> <<"s", "v", "e", "l", "t", "e">>)
    @@ ("a.js" :> <<"a", ".", "j", "s">>)
    @@ ("b.js" :> <<"b", ".", "j", "s">>)
    @@ ("c.svelte" :> <<"c", ".", "s", "v", "e", "l", "t", "e">>)
    @@ ("a.py" :> <<"a", ".", "p", "y">>)
    @@ ("a.rs" :> <<"a", ".", "r", "s">>)
    @@ ("a.svelte" :> <<"a", ".", "s", "v", "e", "l", "t", "e">>)
    @@ ("let" :> <<"l", "e", "t">>)
    @@ ("var" :> <<"v", "a", "r">>)
    @@ ("interface" :> <<"i", "n", "t", "e", "r", "f", "a", "c", "e">>)
    @@ ("type" :> <<"t", "y", "p", "e">>)
    @@ ("enum" :> <<"e", "n", "u", "m">>)
    @@ ("trait" :> <<"t", "r", "a", "i", "t">>)
    @@ ("impl" :> <<"i", "m", "p", "l">>)
    @@ ("pub" :> <<"p", "u", "b">>)
    @@ ("mod" :> <<"m", "o", "d">>)
    @@ (">" :> <<">">>)
    @@ ("f" :> <<"f">>)
    @@ ("g" :> <<"g">>)
    @@ ("h" :> <<"h">>)
    @@ ("x" :> <<"x">>)
    @@ ("a" :> <<"a">>)
    @@ ("b" :> <<"b">>)
    @@ ("m" :> <<"m">>)
    @@ ("v" :> <<"v">>)
    @@ ("C" :> <<"C">>)
    @@ ("K" :> <<"K">>)
    @@ ("foo" :> <<"f", "o", "o">>)
    @@ ("bar" :> <<"b", "a", "r">>)
    @@ ("baz" :> <<"b", "a", "z">>)
    @@ ("P" :> <<"P">>)
    @@ ("Foo" :> <<"F", "o", "o">>)
    @@ ("1" :> <<"1">>)
    @@ ("'m'" :> <<"'", "m", "'">>)
    @@ ("{#if x}" :> <<"{", "#", "i", "f", " ", "x", "}">>)
    @@ ("{/if}" :> <<"{", "/", "i", "f", "}">>)
    @@ ("{#each xs as x}" :> <<"{", "#", "e", "a", "c", "h", " ", "x", "s", " ", "a", "s", " ", "x", "}">>)
    @@ ("{/each}" :> <<"{", "/", "e", "a", "c", "h", "}">>)
    @@ ("<script>" :> <<"<", "s", "c", "r", "i", "p", "t", ">">>)
    @@ ("</script>" :> <<"<", "/", "s", "c", "r", "i", "p", "t", ">">>)
    @@ ("<p>" :> <<"<", "p", ">">>)
    @@ ("</p>" :> <<"<", "/", "p", ">">>)

-----------------------------------------------------------------------------
(***************************************************************************)
(* Parse trees.  A SyntaxNode is [name, from, to, kids]; as in a Lezer     *)
(* tree every token is a node, white space belongs to no node, and a node  *)
(* spans from its first to its last child.  Trees are laid out from        *)
(* unpositioned shapes: a token Tk, a node Nd, and the white space that     *)
(* precedes either inside its parent.                                      *)
(***************************************************************************)

Tk(name, word) == [name |-> name, text |-> Chars[word], kids |-> <<>>, gap |-> <<>>]
Kw(word) == Tk(word, word)
Nd(name, kids) == [name |-> name, text |-> <<>>, kids |-> kids, gap |-> <<>>]
Sp(p) == [p EXCEPT !.gap = <<" ">>]
Nl(p) == [p EXCEPT !.gap = <<"\n">>]

RECURSIVE Lay(_, _)
RECURSIVE LayKids(_, _, _)

\* the kids from index i on, the first of them starting at offset pos
LayKids(kids, i, pos) ==
    IF i > Len(kids) THEN [nodes |-> <<>>, text |-> <<>>]
    ELSE LET g == IF i = 1 THEN <<>> ELSE kids[i].gap
             k == Lay(kids[i], pos + Len(g))
             rest == LayKids(kids, i + 1, k.node.to)
         IN [nodes |-> <<k.node>> \o rest.nodes, text |-> g \o k.text \o rest.text]

\* the shape p laid out from offset start: its node and its text
Lay(p, start) ==
    IF p.kids = <<>>
    THEN [node |-> [name |-> p.name, from |-> start, to |-> start + Len(p.text),
                    kids |-> <<>>],
          text |-> p.text]
    ELSE LET ks == LayKids(p.kids, 1, start)
         IN [node |-> [name |-> p.name, from |-> start, to |-> start + Len(ks.text),
                       kids |-> ks.nodes],
             text |-> ks.text]

\* the absent node (null), the absent text (undefined) and the absent FileNode
NoNode == [name |-> None, from |-> 0, to |-> 0, kids |-> <<>>]
NoText == <<None>>
NoFileNode == [kind |-> None]

\* node.getChild(name): the first direct child of that type, or NoNode
getChild(node, name) ==
    IF \E i \in 1..Len(node.kids) : node.kids[i].name = name
    THEN node.kids[CHOOSE i \in 1..Len(node.kids) :
             /\ node.kids[i].name = name
             /\ \A j \in 1..(i - 1) : node.kids[j].name # name]
    ELSE NoNode

\* a || b || ... over getChild results
FirstChildOf(node, names) ==
    IF \E i \in 1..Len(names) : getChild(node, names[i]) # NoNode
    THEN getChild(node, names[CHOOSE i \in 1..Len(names) :
             /\ getChild(node, names[i]) # NoNode
             /\ \A j \in 1..(i - 1) : getChild(node, names[j]) = NoNode])
    ELSE NoNode

\* doc.sliceString(node.from, node.to)
TextOf(node, doc) == sliceString(doc, node.from, node.to)

-----------------------------------------------------------------------------
(***************************************************************************)
(* The structural extractor (file-structure.ts)                            *)
(***************************************************************************)

nameNodes == [js |-> <<"VariableDefinition", "PropertyDefinition">>,
              py |-> <<"VariableName">>,
              rs |-> <<"BoundIdentifier", "TypeIdentifier">>]

funcNodes == [js |-> <<"FunctionDeclaration", "FunctionExpression", "ArrowFunction",
                       "MethodDeclaration">>,
              py |-> <<"FunctionDefinition">>,
              rs |-> <<"FunctionItem">>]

classNodes == [js |-> <<"ClassDeclaration", "ClassExpression">>,
               py |-> <<"ClassDefinition">>,
               rs |-> <<"StructItem", "EnumItem", "TraitItem", "ImplItem">>]

importNodes == [js |-> <<"ImportDeclaration">>,
                py |-> <<"ImportStatement">>,
                rs |-> <<"UseDeclaration", "ExternCrateDeclaration">>]

exportNodes == [js |-> <<"ExportDeclaration">>, py |-> <<>>, rs |-> <<>>]

typeNodes == [js |-> <<"TypeAliasDeclaration", "InterfaceDeclaration", "EnumDeclaration">>,
              py |-> <<>>,
              rs |-> <<"TypeItem">>]

varNodes == [js |-> <<"VariableDeclaration">>,
             py |-> <<"AssignStatement">>,
             rs |-> <<"LetDeclaration", "ConstItem", "StaticItem">>]

controlNodes == {"IfStatement", "ForStatement", "WhileStatement", "DoStatement",
                 "SwitchStatement", "TryStatement", "IfExpression", "MatchExpression",
                 "WhileExpression", "ForExpression", "LoopExpression"}

loopNodes == {"ForStatement", "WhileStatement", "DoStatement", "WhileExpression",
              "ForExpression", "LoopExpression"}

conditionNodes == {"IfStatement", "SwitchStatement", "TryStatement", "IfExpression",
                   "MatchExpression"}

svelteBlockNodes == {"IfBlock", "EachBlock", "AwaitBlock", "KeyBlock"}

\* a lookup that ignores the language and always reads the js table
TableFor_JsOnly(table, lang) == table["js"]

\* table[lang] || table.js
TableFor(table, lang) == IF lang \in DOMAIN table THEN table[lang] ELSE table["js"]

Includes(seq, x) == \E i \in 1..Len(seq) : seq[i] = x

detectLanguage(filename) ==
    LET ext == AfterLast(filename, {"."}) IN
    IF ext = Chars["svelte"] THEN "svelte"
    ELSE IF ext \in {Chars["js"], Chars["ts"], Chars["jsx"], Chars["tsx"], Chars["mjs"]}
         THEN "js"
    ELSE IF ext = Chars["py"] THEN "py"
    ELSE IF ext = Chars["rs"] THEN "rs"
    ELSE "js"

RECURSIVE extractName(_, _, _)
extractName(node, doc, lang) ==
    LET byLang == FirstChildOf(node, TableFor(nameNodes, lang))
        fnName == FirstChildOf(node, <<"VariableDefinition", "VariableName", "BoundIdentifier">>)
        declarator == getChild(node, "VariableDeclarator")
        inner1 == IF declarator = NoNode THEN NoNode
                  ELSE FirstChildOf(declarator, <<"VariableDefinition", "VariableName">>)
        definition == getChild(node, "VariableDefinition")
        inner2 == IF definition = NoNode THEN NoNode
                  ELSE FirstChildOf(definition, <<"VariableDefinition", "VariableName">>)
        exportChild == FirstChildOf(node, <<"FunctionDeclaration", "ClassDeclaration",
                                           "VariableDeclaration">>)
        typeId == FirstChildOf(node, <<"TypeIdentifier", "TypeName">>)
        text == sliceString(doc, node.from, Min(node.to, node.from + 60))
        first == Trim(BeforeFirst(text, {"\n"}))
    IN IF byLang # NoNode THEN TextOf(byLang, doc)
       ELSE IF fnName # NoNode THEN TextOf(fnName, doc)
       ELSE IF inner1 # NoNode THEN TextOf(inner1, doc)
       ELSE IF inner2 # NoNode THEN TextOf(inner2, doc)
       ELSE IF exportChild # NoNode THEN extractName(exportChild, doc, lang)
       ELSE IF typeId # NoNode THEN TextOf(typeId, doc)
       ELSE Ellipsis(first, 40, 37)

\* s.replace(/^:\s*/, "")
StripColon(s) ==
    IF Len(s) > 0 /\ s[1] = ":" THEN TrimStart(SubSeq(s, 2, Len(s))) ELSE s

\* s.replace(/^\s*->\s*/, "")
StripArrow(s) ==
    LET t == TrimStart(s) IN
    IF StartsWith(t, <<"-", ">">>) THEN TrimStart(SubSeq(t, 3, Len(t))) ELSE s

NoParam == [name |-> NoText, type |-> NoText]

\* the entry extractParams pushes for one child of the parameter list, or
\* NoParam
ParamOf(child, doc) ==
    IF child.name \in {"(", ")", ",", "..."} THEN NoParam
    ELSE LET nameChild == FirstChildOf(child, <<"VariableDefinition", "VariableName",
                                               "BoundIdentifier">>)
             name == IF nameChild # NoNode THEN TextOf(nameChild, doc)
                     ELSE Trim(BeforeFirst(TextOf(child, doc), {",", ":", "="}))
             typeAnn == getChild(child, "TypeAnnotation")
         IN IF name = <<>> \/ name = <<"(">> \/ name = <<")">> THEN NoParam
            ELSE [name |-> name,
                  type |-> IF typeAnn = NoNode THEN NoText
                           ELSE StripColon(TextOf(typeAnn, doc))]

RECURSIVE ParamsFrom(_, _, _)
ParamsFrom(kids, i, doc) ==
    IF i > Len(kids) THEN <<>>
    ELSE LET p == ParamOf(kids[i], doc)
         IN (IF p = NoParam THEN <<>> ELSE <<p>>) \o ParamsFrom(kids, i + 1, doc)

extractParams(node, doc) ==
    LET paramList == FirstChildOf(node, <<"ParamList", "Parameters", "TypeParamList">>)
    IN IF paramList = NoNode THEN <<>> ELSE ParamsFrom(paramList.kids, 1, doc)

extractReturnType(node, doc) ==
    LET typeAnn == getChild(node, "TypeAnnotation")
        retType == FirstChildOf(node, <<"ReturnType", "TypeIdentifier">>)
    IN IF typeAnn # NoNode THEN StripArrow(StripColon(TextOf(typeAnn, doc)))
       ELSE IF retType # NoNode THEN StripArrow(TextOf(retType, doc))
       ELSE NoText

emptySummary ==
    [callCount |-> 0, conditionCount |-> 0, loopCount |-> 0, returnCount |-> 0,
     calledFunctions |-> <<>>]

callNodes == {"CallExpression", "NewExpression", "MacroInvocation"}

returnNodes == {"ReturnStatement", "ReturnExpression"}

\* walkForSummary: the node types whose children are not entered
skip == {"FunctionDeclaration", "FunctionExpression", "ArrowFunction",
         "FunctionDefinition", "FunctionItem", "MethodDeclaration"}

\* text.split(".").pop()?.split("(")[0]?.trim() of the callee of a call node
CalleeName(node, doc) ==
    IF node.kids = <<>> THEN <<>>
    ELSE Trim(BeforeFirst(AfterLast(TextOf(node.kids[1], doc), {"."}), {"("}))

\* walkForSummary, lines 337-350: what the node itself adds to the summary
CountNode(node, doc) ==
    LET name == CalleeName(node, doc)
        isCall == node.name \in callNodes
    IN [callCount |-> IF isCall THEN 1 ELSE 0,
        conditionCount |-> IF node.name \in conditionNodes THEN 1 ELSE 0,
        loopCount |-> IF node.name \in loopNodes THEN 1 ELSE 0,
        returnCount |-> IF node.name \in returnNodes THEN 1 ELSE 0,
        calledFunctions |-> IF isCall /\ name # <<>> /\ Len(name) < 40
                            THEN <<name>> ELSE <<>>]

\* the summary after the increments and pushes of a, then those of b
Plus(a, b) ==
    [callCount |-> a.callCount + b.callCount,
     conditionCount |-> a.conditionCount + b.conditionCount,
     loopCount |-> a.loopCount + b.loopCount,
     returnCount |-> a.returnCount + b.returnCount,
     calledFunctions |-> a.calledFunctions \o b.calledFunctions]

RECURSIVE PlusAll(_, _)
PlusAll(summaries, i) ==
    IF i > Len(summaries) THEN emptySummary
    ELSE Plus(summaries[i], PlusAll(summaries, i + 1))

\* a walk that enters the children of every node
SkipsChildren_Never(node) == FALSE

\* walkForSummary, line 354: the children of the node are not entered
SkipsChildren(node) == node.name \in skip

RECURSIVE walkForSummary(_, _)

\* the loop over the children, lines 356-360 and 327-329
WalkKidsForSummary(kids, doc) ==
    PlusAll([i \in 1..Len(kids) |-> walkForSummary(kids[i], doc)], 1)

\* what a call of walkForSummary on the node adds to the summary it is given
walkForSummary(node, doc) ==
    Plus(CountNode(node, doc),
         IF SkipsChildren(node) THEN emptySummary
         ELSE WalkKidsForSummary(node.kids, doc))

\* a list that is left as it is, repeated values included
Dedup_Keeps(list) == list

\* [...new Set(list)]: each value once, in the order of first occurrence
RECURSIVE Dedup(_)
Dedup(list) ==
    IF list = <<>> THEN <<>>
    ELSE LET init == SubSeq(list, 1, Len(list) - 1)
             last == list[Len(list)]
         IN IF Includes(init, last) THEN Dedup(init) ELSE Append(Dedup(init), last)

buildChildSummary(node, doc) ==
    LET walked == WalkKidsForSummary(node.kids, doc)
    IN [walked EXCEPT !.calledFunctions = Dedup(walked.calledFunctions)]

classifyNode(node, lang) ==
    IF Includes(TableFor(funcNodes, lang), node.name) THEN "function"
    ELSE IF Includes(TableFor(classNodes, lang), node.name) THEN "class"
    ELSE IF Includes(TableFor(importNodes, lang), node.name) THEN "import"
    ELSE IF Includes(TableFor(exportNodes, lang), node.name) THEN "export"
    ELSE IF Includes(TableFor(typeNodes, lang), node.name) THEN "type"
    ELSE IF Includes(TableFor(varNodes, lang), node.name) THEN "variable"
    ELSE IF node.name \in controlNodes THEN "control"
    ELSE None

\* where a node sits: the names of its parent and of its previous sibling
Ctx(parent, prev) == [parent |-> parent, prev |-> prev]

KidCtx(parent, i) ==
    Ctx(parent.name, IF i = 1 THEN None ELSE parent.kids[i - 1].name)

isExported(ctx) == ctx.parent = "ExportDeclaration" \/ ctx.prev = "export"

isAsync(node, doc) ==
    StartsWith(TrimStart(sliceString(doc, node.from, Min(node.to, node.from + 20))),
               Chars["async"])

keywords == <<"const", "let", "var", "function", "class", "interface", "type", "enum",
              "struct", "trait", "impl", "fn", "use", "import", "from", "pub", "mod">>

\* s starts with the word w followed by one or more white space characters:
\* what is left of s after them, or NoText
AfterWord(s, w) ==
    IF s # NoText /\ StartsWith(s, w) /\ Len(s) > Len(w) /\ s[Len(w) + 1] \in Whitespace
    THEN TrimStart(SubSeq(s, Len(w) + 1, Len(s)))
    ELSE NoText

\* the first of the keywords that s starts with, ending at a word boundary
KeywordAt(s) ==
    LET hit(i) == /\ StartsWith(s, Chars[keywords[i]])
                  /\ (Len(s) = Len(Chars[keywords[i]])
                      \/ s[Len(Chars[keywords[i]]) + 1] \notin WordChars)
    IN IF s # NoText /\ \E i \in 1..Len(keywords) : hit(i)
       THEN keywords[CHOOSE i \in 1..Len(keywords) :
                hit(i) /\ \A j \in 1..(i - 1) : ~hit(j)]
       ELSE None

\* text.match(/^(export\s+)?(async\s+)?(const|let|...|mod)\b/)?.[3] || node.name
\* (a node name stands as one character of the keyword text)
extractKeyword(node, doc) ==
    LET text == sliceString(doc, node.from, Min(node.to, node.from + 30))
        e == AfterWord(text, Chars["export"])
        ea == AfterWord(e, Chars["async"])
        a == AfterWord(text, Chars["async"])
    IN IF KeywordAt(ea) # None THEN Chars[KeywordAt(ea)]
       ELSE IF KeywordAt(e) # None THEN Chars[KeywordAt(e)]
       ELSE IF KeywordAt(a) # None THEN Chars[KeywordAt(a)]
       ELSE IF KeywordAt(text) # None THEN Chars[KeywordAt(text)]
       ELSE <<node.name>>

\* a span that takes in the character after the syntax node
SpanOf_PastEnd(node) == [from |-> node.from, to |-> node.to + 1]

\* buildFileNode, lines 432-433: the span a FileNode keeps of its syntax node
SpanOf(node) == [from |-> node.from, to |-> node.to]

\* buildFileNode, line 413: the body container of a function or class
BodyOf(node) == FirstChildOf(node, <<"Block", "Body", "ClassBody", "DeclarationList">>)

\* buildFileNode, line 408
SummaryOf(node, kind, doc) ==
    IF kind \in {"function", "class"} THEN buildChildSummary(node, doc) ELSE emptySummary

RECURSIVE buildFileNode(_, _, _, _)
RECURSIVE BuildChildren(_, _, _, _)

\* buildFileNode, lines 415-420: the FileNodes of the body's children
BuildChildren(body, i, doc, lang) ==
    IF i > Len(body.kids) THEN <<>>
    ELSE LET childNode == buildFileNode(body.kids[i], KidCtx(body, i), doc, lang)
         IN (IF childNode = NoFileNode THEN <<>> ELSE <<childNode>>)
            \o BuildChildren(body, i + 1, doc, lang)

buildFileNode(node, ctx, doc, lang) ==
    LET kind == classifyNode(node, lang)
        body == BodyOf(node)
    IN IF kind = None THEN NoFileNode
       ELSE [kind |-> kind,
             name |-> extractName(node, doc, lang),
             params |-> IF kind = "function" THEN extractParams(node, doc) ELSE <<>>,
             returnType |-> IF kind = "function" THEN extractReturnType(node, doc)
                            ELSE NoText,
             isAsync |-> isAsync(node, doc),
             isExported |-> isExported(ctx),
             keyword |-> extractKeyword(node, doc),
             from |-> SpanOf(node).from,
             to |-> SpanOf(node).to,
             children |-> IF kind \in {"function", "class"} /\ body # NoNode
                          THEN BuildChildren(body, 1, doc, lang)
                          ELSE <<>>,
             childSummary |-> SummaryOf(node, kind, doc)]

\* new FileStructure, lines 565-570
FreshStructure(lang) ==
    [imports |-> <<>>, exports |-> <<>>, declarations |-> <<>>, language |-> lang]

\* an import that is put before the imports found so far
PushImport_Front(st, n) == [st EXCEPT !.imports = <<n>> \o @]

PushImport(st, n) == [st EXCEPT !.imports = Append(@, n)]
PushExport(st, n) == [st EXCEPT !.exports = Append(@, n)]
PushDeclaration(st, n) == [st EXCEPT !.declarations = Append(@, n)]

\* a walk that files a node it does not recognise under declarations
Route_UnknownKept(st, fileNode) ==
    IF fileNode = NoFileNode THEN PushDeclaration(st, fileNode)
    ELSE IF fileNode.kind = "import" THEN PushImport(st, fileNode)
    ELSE IF fileNode.kind = "export" THEN PushExport(st, fileNode)
    ELSE PushDeclaration(st, fileNode)

\* walkJsNodes, lines 463-468: a node that is not an export wrapper
Route(st, fileNode) ==
    IF fileNode = NoFileNode THEN st
    ELSE IF fileNode.kind = "import" THEN PushImport(st, fileNode)
    ELSE IF fileNode.kind = "export" THEN PushExport(st, fileNode)
    ELSE PushDeclaration(st, fileNode)

\* walkJsNodes, lines 450-455: a classifiable child of an export wrapper
RouteExported(st, fileNode) ==
    IF fileNode = NoFileNode THEN st
    ELSE LET exported == [fileNode EXCEPT !.isExported = TRUE]
             placed == IF exported.kind = "import" THEN PushImport(st, exported)
                       ELSE PushDeclaration(st, exported)
         IN PushExport(placed, [exported EXCEPT !.kind = "export"])

RECURSIVE RouteInner(_, _, _, _, _)
\* walkJsNodes, lines 447-457: the children of an export wrapper, from child i
RouteInner(st, node, i, doc, lang) ==
    IF i > Len(node.kids) THEN st
    ELSE RouteInner(RouteExported(st, buildFileNode(node.kids[i], KidCtx(node, i), doc, lang)),
                    node, i + 1, doc, lang)

\* walkJsNodes, line 458: the wrapper itself is built and appended to exports
WrapperIsPushed(node, lang) ==
    node.kids = <<>> \/ classifyNode(node.kids[1], lang) = None

\* one iteration of the loop of walkJsNodes
walkJsNode(st, node, ctx, doc, lang) ==
    IF node.name = "ExportDeclaration"
    THEN LET inner == RouteInner(st, node, 1, doc, lang)
             exportNode == buildFileNode(node, ctx, doc, lang)
         IN IF WrapperIsPushed(node, lang) /\ exportNode # NoFileNode
            THEN PushExport(inner, exportNode)
            ELSE inner
    ELSE Route(st, buildFileNode(node, ctx, doc, lang))

RECURSIVE Preorder(_, _)
RECURSIVE PreorderKids(_, _)

PreorderKids(node, i) ==
    IF i > Len(node.kids) THEN <<>>
    ELSE Preorder(node.kids[i], KidCtx(node, i)) \o PreorderKids(node, i + 1)

\* tree.iterate: the nodes in the order they are entered, each with its place
\* and the number of nodes of its subtree
Preorder(node, ctx) ==
    LET below == PreorderKids(node, 1)
    IN <<[node |-> node, ctx |-> ctx, size |-> 1 + Len(below)]>> \o below

blockNames == [IfBlock |-> <<"I", "f">>, EachBlock |-> <<"E", "a", "c", "h">>,
               AwaitBlock |-> <<"A", "w", "a", "i", "t">>, KeyBlock |-> <<"K", "e", "y">>]

blockKeywords == [IfBlock |-> <<"{", "#", "i", "f", "}">>,
                  EachBlock |-> <<"{", "#", "e", "a", "c", "h", "}">>,
                  AwaitBlock |-> <<"{", "#", "a", "w", "a", "i", "t", "}">>,
                  KeyBlock |-> <<"{", "#", "k", "e", "y", "}">>]

\* openText.match(/\{[#:@]\w+\s+(.*)\}/)?.[1].trim(), or the empty text
LeadExpression(openText) ==
    LET \* the match that starts at i: the text of group 1, or NoText
        at(i) ==
            IF /\ i + 2 <= Len(openText)
               /\ openText[i] = "{"
               /\ openText[i + 1] \in {"#", ":", "@"}
               /\ openText[i + 2] \in WordChars
            THEN LET rest == SubSeq(openText, i + 2, Len(openText))
                     afterWord == SubSeq(rest, FirstIn(rest, {rest[k] : k \in 1..Len(rest)}
                                                             \ WordChars), Len(rest))
                     afterSpace == TrimStart(afterWord)
                     body == BeforeFirst(afterSpace, {"\n"})
                     close == LastIn(body, {"}"})
                 IN IF Len(afterSpace) < Len(afterWord) /\ close > 0
                    THEN SubSeq(body, 1, close - 1)
                    ELSE NoText
            ELSE NoText
        hits == {i \in 1..Len(openText) : at(i) # NoText}
    IN IF hits = {} THEN <<>>
       ELSE Trim(at(CHOOSE i \in hits : \A j \in hits : i <= j))

\* extractSvelteNodes, lines 499-510
BlockNode(node, doc) ==
    LET exprText == IF node.kids = <<>> THEN <<>>
                    ELSE LeadExpression(TextOf(node.kids[1], doc))
    IN [kind |-> "control",
        name |-> IF exprText # <<>>
                 THEN blockNames[node.name] \o <<":", " ">> \o Ellipsis(exprText, 40, 37)
                 ELSE blockNames[node.name],
        params |-> <<>>, returnType |-> NoText,
        isAsync |-> (node.name = "AwaitBlock"), isExported |-> FALSE,
        keyword |-> blockKeywords[node.name],
        from |-> SpanOf(node).from, to |-> SpanOf(node).to, children |-> <<>>,
        childSummary |-> emptySummary]

\* extractSvelteNodes, lines 518-529
ComponentNode(node, doc) ==
    [kind |-> "variable", name |-> <<"<">> \o TextOf(node, doc) \o <<">">>,
     params |-> <<>>, returnType |-> NoText, isAsync |-> FALSE, isExported |-> FALSE,
     keyword |-> <<"c", "o", "m", "p", "o", "n", "e", "n", "t">>,
     from |-> SpanOf(node).from, to |-> SpanOf(node).to, children |-> <<>>,
     childSummary |-> emptySummary]

\* extractSvelteNodes, lines 534-553: a node the js classifier recognises
RouteSvelte(st, node, ctx, doc) ==
    LET fileNode == buildFileNode(node, ctx, doc, "js")
        innerNode == IF node.kids = <<>> THEN NoFileNode
                     ELSE buildFileNode(node.kids[1], KidCtx(node, 1), doc, "js")
    IN IF fileNode = NoFileNode THEN st
       ELSE IF fileNode.kind = "import" THEN PushImport(st, fileNode)
       ELSE IF fileNode.kind = "export"
            THEN PushExport(IF innerNode = NoFileNode THEN st
                            ELSE PushDeclaration(st, [innerNode EXCEPT !.isExported = TRUE]),
                            fileNode)
       ELSE PushDeclaration(st, fileNode)

\* extractSvelteNodes, line 486
AlreadySeen(seen, node) == node.from \in seen

\* an enter callback that goes on into the children of a node it has matched
svelteEnter_Descends(st, seen, node, ctx, doc) ==
    IF AlreadySeen(seen, node)
    THEN [structure |-> st, seen |-> seen, descend |-> FALSE]
    ELSE IF node.name \in svelteBlockNodes
    THEN [structure |-> PushDeclaration(st, BlockNode(node, doc)),
          seen |-> seen \cup {node.from}, descend |-> TRUE]
    ELSE IF node.name = "ComponentName"
    THEN [structure |-> PushDeclaration(st, ComponentNode(node, doc)),
          seen |-> seen \cup {node.from}, descend |-> TRUE]
    ELSE IF classifyNode(node, "js") # None
    THEN [structure |-> RouteSvelte(st, node, ctx, doc),
          seen |-> seen \cup {node.from}, descend |-> TRUE]
    ELSE [structure |-> st, seen |-> seen, descend |-> TRUE]

\* the enter callback of extractSvelteNodes on one node: the structure and the
\* seen set after it, and whether the children of the node are entered
svelteEnter(st, seen, node, ctx, doc) ==
    IF AlreadySeen(seen, node)
    THEN [structure |-> st, seen |-> seen, descend |-> FALSE]
    ELSE IF node.name \in svelteBlockNodes
    THEN [structure |-> PushDeclaration(st, BlockNode(node, doc)),
          seen |-> seen \cup {node.from}, descend |-> FALSE]
    ELSE IF node.name = "ComponentName"
    THEN [structure |-> PushDeclaration(st, ComponentNode(node, doc)),
          seen |-> seen \cup {node.from}, descend |-> FALSE]
    ELSE IF classifyNode(node, "js") # None
    THEN [structure |-> RouteSvelte(st, node, ctx, doc),
          seen |-> seen \cup {node.from}, descend |-> FALSE]
    ELSE [structure |-> st, seen |-> seen, descend |-> TRUE]

-----------------------------------------------------------------------------
(***************************************************************************)
(* The source files the extractor is run on: Lezer trees of small          *)
(* JavaScript, Python, Rust and Svelte files.                              *)
(***************************************************************************)

MaxTop == 2
MaxRuns == 2

\* the kids of a node, each after the first preceded by one space
Spaced(kids) == [i \in 1..Len(kids) |-> IF i = 1 THEN kids[i] ELSE Sp(kids[i])]

\* the top-level items of a file, one per line
Lines(items) == [i \in 1..Len(items) |-> IF i = 1 THEN items[i] ELSE Nl(items[i])]

Args == Nd("ArgList", <<Kw("("), Kw(")")>>)
Call(w) == Nd("CallExpression", <<Tk("VariableName", w), Args>>)
MemberCall(o, w) ==
    Nd("CallExpression",
       <<Nd("MemberExpression", <<Tk("VariableName", o), Kw("."), Tk("PropertyName", w)>>),
         Args>>)
CallStmt(w) == Nd("ExpressionStatement", <<Call(w), Kw(";")>>)
Block(stmts) == Nd("Block", Spaced(<<Kw("{")>> \o stmts \o <<Kw("}")>>))
Params(ps) == Nd("ParamList", <<Kw("(")>> \o ps \o <<Kw(")")>>)
Fn(w, ps, body) ==
    Nd("FunctionDeclaration",
       <<Kw("function"), Sp(Tk("VariableDefinition", w)), Params(ps), Sp(body)>>)
AsyncFn(w, ps, body) ==
    Nd("FunctionDeclaration",
       <<Kw("async"), Sp(Kw("function")), Sp(Tk("VariableDefinition", w)), Params(ps),
         Sp(body)>>)
Cond == Nd("ParenthesizedExpression", <<Kw("("), Tk("VariableName", "x"), Kw(")")>>)
IfStmt(body) == Nd("IfStatement", <<Kw("if"), Sp(Cond), Sp(body)>>)
ForStmt(body) ==
    Nd("ForStatement",
       <<Kw("for"), Sp(Nd("ForSpec", <<Kw("("), Kw(";"), Kw(";"), Kw(")")>>)), Sp(body)>>)
ReturnStmt(e) == Nd("ReturnStatement", <<Kw("return"), Sp(e), Kw(";")>>)
Const(w, e) ==
    Nd("VariableDeclaration",
       <<Kw("const"), Sp(Tk("VariableDefinition", w)), Sp(Tk("Equals", "=")), Sp(e)>>)
Arrow(body) == Nd("ArrowFunction", <<Params(<<>>), Sp(Tk("Arrow", "=>")), Sp(body)>>)
Class(w, members) ==
    Nd("ClassDeclaration",
       <<Kw("class"), Sp(Tk("VariableDefinition", w)),
         Sp(Nd("ClassBody", Spaced(<<Kw("{")>> \o members \o <<Kw("}")>>)))>>)
Method(w, body) ==
    Nd("MethodDeclaration", <<Tk("PropertyDefinition", w), Params(<<>>), Sp(body)>>)
Import(w) ==
    Nd("ImportDeclaration",
       <<Kw("import"), Sp(Tk("VariableDefinition", w)), Sp(Kw("from")),
         Sp(Tk("String", "'m'"))>>)
Export(decl) == Nd("ExportDeclaration", <<Kw("export"), Sp(decl)>>)
ExportGroup(w) == Nd("ExportGroup", <<Kw("{"), Tk("VariableName", w), Kw("}")>>)

X == Tk("VariableDefinition", "x")
DefaultX == <<X, Sp(Tk("Equals", "=")), Sp(Call("h"))>>

\* function bodies
BodyEmpty == Block(<<>>)
BodyCall == Block(<<CallStmt("foo")>>)
BodyScope == Block(<<Fn("g", <<>>, Block(<<CallStmt("bar")>>)), CallStmt("foo")>>)
BodyControl ==
    Block(<<IfStmt(Block(<<ReturnStmt(MemberCall("a", "foo"))>>)),
            ForStmt(Block(<<CallStmt("foo"), CallStmt("foo")>>))>>)
BodyMixed ==
    Block(<<Const("g", Arrow(Block(<<CallStmt("bar")>>))),
            Class("K", <<Method("m", Block(<<CallStmt("baz")>>)),
                         Nd("PropertyDeclaration",
                            <<Tk("PropertyDefinition", "x"), Sp(Tk("Equals", "=")),
                              Sp(Call("baz"))>>)>>),
            CallStmt("foo")>>)
BodyDeep ==
    Block(<<Fn("g", <<>>,
               Block(<<Fn("h", <<>>, Block(<<CallStmt("baz")>>)),
                       IfStmt(Block(<<CallStmt("bar")>>))>>)),
            ReturnStmt(Call("foo"))>>)

\* the top-level statements of a JavaScript file
JsItems ==
    {Import("a"),
     Fn("f", <<X>>, BodyScope), Fn("f", <<>>, BodyControl), Fn("f", <<>>, BodyMixed),
     Fn("f", <<>>, BodyDeep), AsyncFn("f", DefaultX, BodyCall),
     Export(Fn("f", <<>>, BodyDeep)), Export(ExportGroup("a")),
     Export(Const("v", Tk("Number", "1"))),
     Class("C", <<Method("m", BodyScope)>>), CallStmt("foo"), IfStmt(BodyCall)}

\* the top-level statements of a Python file
PyItems ==
    {Nd("ImportStatement", <<Kw("import"), Sp(Tk("VariableName", "a"))>>),
     Nd("FunctionDefinition",
        <<Kw("def"), Sp(Tk("VariableName", "f")), Params(<<Tk("VariableName", "x")>>),
          Nd("Body", <<Kw(":"), Sp(Nd("ExpressionStatement", <<Call("foo")>>))>>)>>),
     Nd("AssignStatement",
        <<Tk("VariableName", "v"), Sp(Tk("AssignOp", "=")), Sp(Tk("Number", "1"))>>)}

\* the top-level items of a Rust file
RsItems ==
    {Nd("UseDeclaration", <<Kw("use"), Sp(Tk("Identifier", "a")), Kw(";")>>),
     Nd("FunctionItem",
        <<Kw("fn"), Sp(Tk("BoundIdentifier", "f")), Params(<<>>),
          Sp(Block(<<Nd("ExpressionStatement", <<Call("foo"), Kw(";")>>)>>))>>),
     Nd("StructItem",
        <<Kw("struct"), Sp(Tk("TypeIdentifier", "P")),
          Sp(Nd("FieldDeclarationList", <<Kw("{"), Kw("}")>>))>>)}

Component(w) ==
    Nd("Element", <<Nd("SelfClosingTag", <<Tk("StartTag", "<"), Tk("ComponentName", w),
                                           Tk("SelfCloseEndTag", ">")>>)>>)
Paragraph(kids) ==
    Nd("Element", <<Tk("OpenTag", "<p>")>> \o kids \o <<Tk("CloseTag", "</p>")>>)

\* the top-level items of a Svelte file
SvelteItems ==
    {Nd("Element",
        <<Tk("OpenTag", "<script>"),
          Nl(Nd("Script", <<Import("a"), Nl(Export(Fn("f", <<>>, BodyScope)))>>)),
          Nl(Tk("CloseTag", "</script>"))>>),
     Nd("Element",
        <<Tk("OpenTag", "<script>"),
          Nl(Nd("Script", <<Const("v", Call("foo")), Nl(CallStmt("foo"))>>)),
          Nl(Tk("CloseTag", "</script>"))>>),
     Nd("IfBlock", <<Tk("IfBlockOpen", "{#if x}"), Component("Foo"),
                     Tk("IfBlockClose", "{/if}")>>),
     Nd("EachBlock", <<Tk("EachBlockOpen", "{#each xs as x}"), Paragraph(<<>>),
                       Tk("EachBlockClose", "{/each}")>>),
     Component("Foo"),
     Paragraph(<<Component("Foo")>>)}

\* the files of at most MaxTop top-level items drawn from `items`
FilesOf(top, items, filename) ==
    {LET l == Lay(Nd(top, Lines(its)), 0)
     IN [tree |-> l.node, doc |-> l.text, filename |-> Chars[filename]] :
        its \in UNION {[1..n -> items] : n \in 0..MaxTop}}

Inputs ==
    FilesOf("Script", JsItems, "a.js") \cup FilesOf("Script", PyItems, "a.py")
    \cup FilesOf("SourceFile", RsItems, "a.rs")
    \cup FilesOf("Document", SvelteItems, "a.svelte")

-----------------------------------------------------------------------------
(* extractFileStructure, one step per visited node *)

ExtractStep == UNCHANGED <<panelVars, outlineVars, conceptVars, proseVars>>

Lang == detectLanguage(xin.filename)

\* a structure that outlives the call: a run starts with what the last one left
StartStructure_Kept(lang) ==
    IF runs = <<>> THEN FreshStructure(lang) ELSE runs[Len(runs)]

\* the structure a run starts with
StartStructure(lang) == FreshStructure(lang)

\* extractFileStructure, lines 560-573: a call, up to the walk
ExtractBegin ==
    /\ xpc = "ready"
    /\ Len(runs) < MaxRuns
    /\ structure' = StartStructure(Lang)
    /\ xseen' = {}
    /\ xcur' = 1
    /\ xpc' = IF Lang = "svelte" THEN "svelte" ELSE "walk"
    /\ UNCHANGED <<xin, runs>>
    /\ ExtractStep

\* walkJsNodes: one iteration of its loop over the top-level nodes
WalkJsStep ==
    /\ xpc = "walk"
    /\ xcur <= Len(xin.tree.kids)
    /\ structure' = walkJsNode(structure, xin.tree.kids[xcur], KidCtx(xin.tree, xcur),
                               xin.doc, Lang)
    /\ xcur' = xcur + 1
    /\ UNCHANGED <<xin, xpc, xseen, runs>>
    /\ ExtractStep

\* extractSvelteNodes: one call of the enter callback
SvelteEnterStep ==
    /\ xpc = "svelte"
    /\ LET order == Preorder(xin.tree, Ctx(None, None)) IN
       /\ xcur <= Len(order)
       /\ LET e == order[xcur]
              r == svelteEnter(structure, xseen, e.node, e.ctx, xin.doc)
          IN /\ structure' = r.structure
             /\ xseen' = r.seen
             /\ xcur' = IF r.descend THEN xcur + 1 ELSE xcur + e.size
    /\ UNCHANGED <<xin, xpc, runs>>
    /\ ExtractStep

\* the walk is over
WalkOver ==
    \/ xpc = "walk" /\ xcur > Len(xin.tree.kids)
    \/ xpc = "svelte" /\ xcur > Len(Preorder(xin.tree, Ctx(None, None)))

\* extractFileStructure, line 579: the structure is returned
ExtractReturn ==
    /\ WalkOver
    /\ runs' = Append(runs, structure)
    /\ xpc' = "ready"
    /\ UNCHANGED <<xin, xcur, xseen, structure>>
    /\ ExtractStep

ExtractInit ==
    /\ xin \in Inputs
    /\ xpc = "ready"
    /\ xcur = 1
    /\ xseen = {}
    /\ structure = FreshStructure(Lang)
    /\ runs = <<>>

ExtractNext == ExtractBegin \/ WalkJsStep \/ SvelteEnterStep \/ ExtractReturn

-----------------------------------------------------------------------------
(***************************************************************************)
(* The outline builder (book-structure.ts)                                 *)
(***************************************************************************)

MaxOutlineTop == 3

RECURSIVE walkJsNodes(_, _, _, _, _)
\* walkJsNodes from the i-th top-level node on: the whole loop
walkJsNodes(st, top, i, doc, lang) ==
    IF i > Len(top.kids) THEN st
    ELSE walkJsNodes(walkJsNode(st, top.kids[i], KidCtx(top, i), doc, lang),
                     top, i + 1, doc, lang)

Reverse(seq) == [i \in 1..Len(seq) |-> seq[Len(seq) + 1 - i]]

\* the top-level statements of the files an outline is built for
OutlineItems ==
    {Import("a"), Import("b"), Fn("f", <<X>>, BodyDeep), Export(Fn("g", <<>>, BodyScope)),
     Class("C", <<Method("m", BodyScope)>>), Const("v", Call("foo"))}

\* the arguments of buildOutline: the structure of a file of at most
\* MaxOutlineTop statements, its imports listed in source order or not, and
\* the text of the file
OutlineInputs ==
    LET files == {Lay(Nd("Script", Lines(its)), 0) :
                     its \in UNION {[1..n -> OutlineItems] : n \in 0..MaxOutlineTop}}
        extracted(l) == walkJsNodes(FreshStructure("js"), l.node, 1, l.text, "js")
    IN {[structure |-> [extracted(l) EXCEPT
                           !.imports = IF inOrder THEN @ ELSE Reverse(@)],
         doc |-> l.text] : l \in files, inOrder \in BOOLEAN}

\* lineNum, lines 82-88
lineNum(doc, offset) ==
    1 + Cardinality({i \in 1..Min(offset, Len(doc)) : doc[i] = "\n"})

DigitChars == <<"0", "1", "2", "3", "4", "5", "6", "7", "8", "9">>

RECURSIVE Decimal(_)
\* `${n}` of a number that is not negative
Decimal(n) ==
    IF n < 10 THEN <<DigitChars[n + 1]>>
    ELSE Decimal(n \div 10) \o <<DigitChars[(n % 10) + 1]>>

RECURSIVE Join(_, _)
\* texts.join(sep)
Join(texts, sep) ==
    IF texts = <<>> THEN <<>>
    ELSE IF Len(texts) = 1 THEN texts[1]
    ELSE texts[1] \o sep \o Join(Tail(texts), sep)

\* code.split("\n").slice(0, 2).join("\n")
Preview(code) ==
    LET first == FirstIn(code, {"\n"})
        rest == SubSeq(code, first + 1, Len(code))
    IN IF first > Len(code) THEN code
       ELSE SubSeq(code, 1, first + FirstIn(rest, {"\n"}) - 1)

\* "  ".repeat(depth)
Indent(depth) == [i \in 1..(2 * depth) |-> " "]

\* ` (lines ${lineNum(doc, from)}-${lineNum(doc, to)})`
LinesNote(doc, from, to) ==
    <<" ", "(", "l", "i", "n", "e", "s", " ">> \o Decimal(lineNum(doc, from))
    \o <<"-">> \o Decimal(lineNum(doc, to)) \o <<")">>

\* Math.min(...imports.map(n => n.from))
firstFrom(imports) ==
    CHOOSE m \in {imports[i].from : i \in 1..Len(imports)} :
        \A i \in 1..Len(imports) : m <= imports[i].from

\* the end of the import that is listed last
lastTo_OfLastListed(imports) == imports[Len(imports)].to

\* Math.max(...imports.map(n => n.to))
lastTo(imports) ==
    CHOOSE m \in {imports[i].to : i \in 1..Len(imports)} :
        \A i \in 1..Len(imports) : m >= imports[i].to

\* buildOutline, lines 30-41
syntheticNode(imports) ==
    [kind |-> "import",
     name |-> Ellipsis(Join([i \in 1..Len(imports) |-> imports[i].name], <<",", " ">>),
                       60, 57),
     params |-> <<>>, returnType |-> NoText, isAsync |-> FALSE, isExported |-> FALSE,
     keyword |-> Chars["import"],
     from |-> firstFrom(imports), to |-> lastTo(imports),
     children |-> <<>>, childSummary |-> emptySummary]

\* map.set(id, entry)
MapSet(map, id, entry) == (id :> entry) @@ map

\* walkNode, lines 66-68
Label(node) ==
    IF node.kind = "function"
    THEN node.keyword \o <<" ">> \o node.name \o <<"(">>
         \o Join([i \in 1..Len(node.params) |-> node.params[i].name], <<",", " ">>)
         \o <<")">>
    ELSE node.keyword \o <<" ">> \o node.name

\* the calls of walkNode a list of FileNodes stands for, at one depth
Calls(nodes, depth) == [i \in 1..Len(nodes) |-> [node |-> nodes[i], depth |-> depth]]

\* the children of a node are walked after everything else that is pending
Pending_ChildrenLast(node, depth, rest) == rest \o Calls(node.children, depth + 1)

\* walkNode, lines 74-76: the children of a node are walked before the call
\* returns, so before anything else that is pending
Pending(node, depth, rest) == Calls(node.children, depth + 1) \o rest

OutlineStep == UNCHANGED <<panelVars, extractVars, conceptVars, proseVars>>

\* buildOutline, lines 18-47: the imports group
OutlineImports ==
    /\ opc = "imports"
    /\ LET imports == oin.structure.imports
           code == sliceString(oin.doc, firstFrom(imports), lastTo(imports))
       IN IF Len(imports) > 0
          THEN /\ nextId' = nextId + 1
               /\ nodeMap' = MapSet(nodeMap, nextId,
                                    [fileNode |-> syntheticNode(imports), code |-> code,
                                     depth |-> 0])
               /\ lines' = lines
                    \o <<Chars["import"] \o <<"s">>
                         \o LinesNote(oin.doc, firstFrom(imports), lastTo(imports)),
                         <<" ", " ">> \o Preview(code)>>
          ELSE UNCHANGED <<nextId, nodeMap, lines>>
    /\ todo' = Calls(oin.structure.declarations, 0)
    /\ opc' = "walk"
    /\ UNCHANGED oin
    /\ OutlineStep

\* walkNode, lines 62-77: one call, up to the loop over the children
WalkNode ==
    /\ opc = "walk"
    /\ todo # <<>>
    /\ LET node == todo[1].node
           depth == todo[1].depth
           code == sliceString(oin.doc, node.from, node.to)
       IN /\ nextId' = nextId + 1
          /\ nodeMap' = MapSet(nodeMap, nextId,
                               [fileNode |-> node, code |-> code, depth |-> depth])
          /\ lines' = lines
               \o <<Indent(depth) \o Label(node) \o LinesNote(oin.doc, node.from, node.to),
                    Indent(depth) \o <<" ", " ">> \o Preview(code)>>
          /\ todo' = Pending(node, depth, Tail(todo))
    /\ UNCHANGED <<oin, opc>>
    /\ OutlineStep

\* buildOutline, line 79
OutlineReturn ==
    /\ opc = "walk"
    /\ todo = <<>>
    /\ opc' = "done"
    /\ UNCHANGED <<oin, nextId, nodeMap, lines, todo>>
    /\ OutlineStep

\* the outline text buildOutline returns
OutlineText == Join(lines, <<"\n">>)

OutlineInit ==
    /\ oin \in OutlineInputs
    /\ opc = "imports"
    /\ nextId = 1
    /\ nodeMap = <<>>
    /\ lines = <<>>
    /\ todo = <<>>

OutlineNext == OutlineImports \/ WalkNode \/ OutlineReturn

-----------------------------------------------------------------------------
(***************************************************************************)
(* The concept classifier (concept-panel.ts, concepts.ts)                  *)
(***************************************************************************)

categories ==
    [declaration |->
        <<"VariableDeclaration", "FunctionDeclaration", "ClassDeclaration",
          "TypeAliasDeclaration", "InterfaceDeclaration", "EnumDeclaration",
          "FunctionDefinition", "ClassDefinition",
          "LetDeclaration", "FunctionItem", "StructItem", "EnumItem",
          "TraitItem", "ImplItem", "TypeItem", "ConstItem", "StaticItem",
          "UnionItem", "ModItem">>,
     importExport |->
        <<"ImportDeclaration", "ExportDeclaration", "ImportStatement",
          "UseDeclaration", "ExternCrateDeclaration">>,
     controlFlow |->
        <<"IfStatement", "ForStatement", "WhileStatement", "DoStatement",
          "SwitchStatement", "TryStatement",
          "IfExpression", "MatchExpression", "WhileExpression",
          "ForExpression", "LoopExpression">>,
     controlJump |->
        <<"ReturnStatement", "ThrowStatement", "BreakStatement", "ContinueStatement",
          "RaiseStatement",
          "ReturnExpression", "BreakExpression", "ContinueExpression">>,
     invocation |->
        <<"CallExpression", "NewExpression", "TaggedTemplateExpression",
          "MacroInvocation">>,
     dataLiteral |->
        <<"String", "Number", "BooleanLiteral", "RegExp", "TemplateString",
          "ArrayExpression", "ObjectExpression",
          "RawString", "Char", "Integer", "Float", "Boolean", "TupleExpression">>,
     parameter |-> <<"ParamList", "ArrayPattern", "ObjectPattern">>,
     async |-> <<"AwaitExpression", "YieldExpression", "AsyncBlock">>,
     jsx |-> <<"JSXElement", "JSXSelfClosingTag">>]

\* the names of the categories as the source spells them
categoryNames ==
    [declaration |-> "declaration", importExport |-> "import-export",
     controlFlow |-> "control-flow", controlJump |-> "control-jump",
     invocation |-> "invocation", dataLiteral |-> "data-literal",
     parameter |-> "parameter", async |-> "async", jsx |-> "jsx"]

\* conceptMap[name], or None; a later category overwrites an earlier one
conceptMap(name) ==
    LET keys == <<"declaration", "importExport", "controlFlow", "controlJump",
                  "invocation", "dataLiteral", "parameter", "async", "jsx">>
        hits == {i \in 1..Len(keys) : Includes(categories[keys[i]], name)}
    IN IF hits = {} THEN None
       ELSE categoryNames[keys[CHOOSE i \in hits : \A j \in hits : j <= i]]

\* doc.lineAt(pos).number
lineAt(doc, pos) == 1 + Cardinality({i \in 1..Min(pos, Len(doc)) : doc[i] = "\n"})

\* the children of every node are entered
EntersChildren_Always(node) == TRUE

\* extractConcepts, lines 25-35: the callback returns false for a matched node
EntersChildren(node) == conceptMap(node.name) = None

\* the enter callback of extractConcepts on one node
conceptEnter(list, node, doc) ==
    IF conceptMap(node.name) # None
    THEN Append(list, [category |-> conceptMap(node.name), nodeName |-> node.name,
                       from |-> node.from, to |-> node.to,
                       text |-> sliceString(doc, node.from, node.to),
                       line |-> lineAt(doc, node.from)])
    ELSE list

ConceptStep == UNCHANGED <<panelVars, extractVars, outlineVars, proseVars>>

\* the position of a traversal that is over (nodes are counted from 1)
ConceptsReturned == 0

\* tree.iterate: the next call of the enter callback
ConceptEnter ==
    /\ cpc # ConceptsReturned
    /\ LET order == Preorder(cin.tree, Ctx(None, None)) IN
       /\ cpc <= Len(order)
       /\ instances' = conceptEnter(instances, order[cpc].node, cin.doc)
       /\ cpc' = IF EntersChildren(order[cpc].node) THEN cpc + 1
                 ELSE cpc + order[cpc].size
    /\ UNCHANGED <<cin, tip>>
    /\ ConceptStep

\* extractConcepts, line 39
ConceptReturn ==
    /\ cpc # ConceptsReturned
    /\ cpc > Len(Preorder(cin.tree, Ctx(None, None)))
    /\ cpc' = ConceptsReturned
    /\ UNCHANGED <<cin, instances, tip>>
    /\ ConceptStep

\* no classified node above the position: the tooltip source returns null
NoTip == [pos |-> -1, end |-> -1, category |-> None]

RECURSIVE resolveInner(_, _)
\* tree.resolveInner(pos), side 0: from the node, into the child that covers
\* the position on both sides, as long as there is one; the result is the
\* path of child indices from the node
resolveInner(node, pos) ==
    LET covering == {i \in 1..Len(node.kids) :
                        node.kids[i].from < pos /\ pos < node.kids[i].to}
    IN IF covering = {} THEN <<>>
       ELSE LET i == CHOOSE k \in covering : TRUE
            IN <<i>> \o resolveInner(node.kids[i], pos)

RECURSIVE NodeAt(_, _)
\* the node a path of child indices leads to
NodeAt(node, path) == IF path = <<>> THEN node ELSE NodeAt(node.kids[path[1]], Tail(path))

\* the band of a classified node
BandOf(node) == [pos |-> node.from, end |-> node.to, category |-> conceptMap(node.name)]

\* a walk up that stops at the first classified node it meets
tooltip_Innermost(tree, pos) ==
    LET path == resolveInner(tree, pos)
        classified == {k \in 0..Len(path) :
                          conceptMap(NodeAt(tree, SubSeq(path, 1, k)).name) # None}
    IN IF classified = {} THEN NoTip
       ELSE BandOf(NodeAt(tree, SubSeq(path, 1,
                                       CHOOSE k \in classified : \A j \in classified : j <= k)))

\* the hover tooltip source, concepts.ts lines 140-168: the walk from the
\* innermost node up to the root overwrites `classified` at every classified
\* node, so the one nearest the root is kept
tooltip(tree, pos) ==
    LET path == resolveInner(tree, pos)
        classified == {k \in 0..Len(path) :
                          conceptMap(NodeAt(tree, SubSeq(path, 1, k)).name) # None}
    IN IF classified = {} THEN NoTip
       ELSE BandOf(NodeAt(tree, SubSeq(path, 1,
                                       CHOOSE k \in classified : \A j \in classified : k <= j)))

RECURSIVE buildDeco(_, _, _)
RECURSIVE DecoKids(_, _, _, _)

\* the marks of the children of a node from child i on
DecoKids(node, i, from, to) ==
    IF i > Len(node.kids) THEN <<>>
    ELSE buildDeco(node.kids[i], from, to) \o DecoKids(node, i + 1, from, to)

\* ConceptHighlighter.buildDeco over one visible range, concepts.ts lines
\* 111-131: tree.iterate enters the nodes that touch the range, and a
\* classified node is marked with the class of its category and not entered
buildDeco(node, from, to) ==
    IF node.from > to \/ node.to < from THEN <<>>
    ELSE IF conceptMap(node.name) # None
    THEN <<[from |-> node.from, to |-> node.to,
            class |-> <<"concept-", conceptMap(node.name)>>]>>
    ELSE DecoKids(node, 1, from, to)

\* the pointer moves along the text to the next or the previous position and
\* rests there: the tooltip source runs for that position.  The hovers
\* followed are those over a file whose instances the panel has listed; the
\* source reads the tree alone, so hovers before that resolve the same way.
Hover ==
    /\ cpc = ConceptsReturned
    /\ \E pos \in {tip.at - 1, tip.at + 1} \cap 0..Len(cin.doc) :
          tip' = [at |-> pos, band |-> tooltip(cin.tree, pos)]
    /\ UNCHANGED <<cin, cpc, instances>>
    /\ ConceptStep

ConceptInit ==
    /\ cin \in Inputs
    /\ cpc = 1
    /\ instances = <<>>
    /\ tip = [at |-> 0, band |-> NoTip]

ConceptNext == ConceptEnter \/ ConceptReturn \/ Hover

-----------------------------------------------------------------------------
(* Each component at rest: the state of a component no operation is using *)

-----------------------------------------------------------------------------
(***************************************************************************)
(* The template prose provider (prose-provider.ts)                         *)
(***************************************************************************)

MaxDecls == 2

LowerCase == {"a", "b", "c", "d", "e", "f", "g", "h", "i", "j", "k", "l", "m",
              "n", "o", "p", "q", "r", "s", "t", "u", "v", "w", "x", "y", "z"}

UpperCase == {"A", "B", "C", "D", "E", "F", "G", "H", "I", "J", "K", "L", "M",
              "N", "O", "P", "Q", "R", "S", "T", "U", "V", "W", "X", "Y", "Z"}

RECURSIVE SplitCamel(_, _)
\* name.replace(/([a-z])([A-Z])/g, "$1 $2"), from the i-th character on
SplitCamel(name, i) ==
    IF i > Len(name) THEN <<>>
    ELSE IF i < Len(name) /\ name[i] \in LowerCase /\ name[i + 1] \in UpperCase
    THEN <<name[i], " ", name[i + 1]>> \o SplitCamel(name, i + 2)
    ELSE <<name[i]>> \o SplitCamel(name, i + 1)

\* s.replace(/c/g, d) for single characters
ReplaceAll(s, c, d) == [i \in 1..Len(s) |-> IF s[i] = c THEN d ELSE s[i]]

\* humanizeName, lines 14-22
humanizeName(name) ==
    Trim(ReplaceAll(ReplaceAll(SplitCamel(name, 1), "_", " "), "-", " "))

\* plural, lines 24-26
plural(n, word) ==
    IF n = 1 THEN Decimal(n) \o <<" ">> \o word
    ELSE Decimal(n) \o <<" ">> \o word \o <<"s">>

\* the kinds of a FileNode, as text
KindText ==
       ("function" :> <<"f", "u", "n", "c", "t", "i", "o", "n">>)
    @@ ("class" :> <<"c", "l", "a", "s", "s">>)
    @@ ("variable" :> <<"v", "a", "r", "i", "a", "b", "l", "e">>)
    @@ ("import" :> <<"i", "m", "p", "o", "r", "t">>)
    @@ ("export" :> <<"e", "x", "p", "o", "r", "t">>)
    @@ ("control" :> <<"c", "o", "n", "t", "r", "o", "l">>)
    @@ ("type" :> <<"t", "y", "p", "e">>)

\* kindLabel, lines 28-39
kindLabel(kind) ==
    IF kind = "control" THEN <<"c", "o", "n", "t", "r", "o", "l", " ", "s", "t", "r", "u", "c", "t", "u", "r", "e">>
    ELSE IF kind = "type" THEN <<"t", "y", "p", "e", " ", "d", "e", "f", "i", "n", "i", "t", "i", "o", "n">>
    ELSE KindText[kind]

\* groupByKind, lines 41-52: the groups in the order their kinds first appear
groupByKind(nodes) ==
    LET kinds == Dedup([i \in 1..Len(nodes) |-> nodes[i].kind])
    IN [g \in 1..Len(kinds) |->
           [kind |-> kinds[g],
            nodes |-> SelectSeq(nodes, LAMBDA n : n.kind = kinds[g])]]

\* a value is truthy: a string that is present and not empty
Truthy(text) == text # NoText /\ text # <<>>

\* the sentence fileSummary returns when it has nothing to tell
EmptyFileSentence ==
    <<"T", "h", "i", "s", " ", "f", "i", "l", "e", " ", "i", "s", " ", "e", "m", "p", "t", "y", " ", "o", "r", " ", "c", "o", "n", "t", "a", "i", "n", "s", " ", "n", "o", " ", "r", "e", "c", "o", "g", "n", "i", "z", "a", "b", "l", "e", " ", "c", "o", "n", "s", "t", "r", "u", "c", "t", "s", ".">>

\* fileSummary, lines 114-121: the part for one kind
KindPart(group) ==
    LET names == SelectSeq([i \in 1..Len(group.nodes) |-> humanizeName(group.nodes[i].name)],
                           LAMBDA n : Len(n) < 40)
        count == plural(Len(group.nodes), kindLabel(group.kind))
    IN IF Len(names) <= 4
       THEN count \o <<" ", "(">> \o Join(names, <<",", " ">>) \o <<")">>
       ELSE count

\* a fileSummary that has no sentence of its own for an empty st
fileSummary_NoEmptyCase(st) ==
    LET groups == groupByKind(st.declarations)
        kindParts == [g \in 1..Len(groups) |-> KindPart(groups[g])]
        defines == IF Len(kindParts) > 0
                   THEN <<<<"T", "h", "i", "s", " ", "f", "i", "l", "e", " ", "d", "e", "f", "i", "n", "e", "s", " ">> \o Join(kindParts, <<" ", "a", "n", "d", " ">>)>>
                   ELSE <<>>
        imports == IF Len(st.imports) > 0
                   THEN <<<<"i", "m", "p", "o", "r", "t", "s", " ", "f", "r", "o", "m", " ">> \o plural(Len(st.imports), <<"m", "o", "d", "u", "l", "e">>)>>
                   ELSE <<>>
    IN Join(defines \o imports, <<" ", "a", "n", "d", " ">>) \o <<".">>

\* fileSummary, lines 107-133
fileSummary(st) ==
    LET groups == groupByKind(st.declarations)
        kindParts == [g \in 1..Len(groups) |-> KindPart(groups[g])]
        defines == IF Len(kindParts) > 0
                   THEN <<<<"T", "h", "i", "s", " ", "f", "i", "l", "e", " ", "d", "e", "f", "i", "n", "e", "s", " ">> \o Join(kindParts, <<" ", "a", "n", "d", " ">>)>>
                   ELSE <<>>
        imports == IF Len(st.imports) > 0
                   THEN <<<<"i", "m", "p", "o", "r", "t", "s", " ", "f", "r", "o", "m", " ">> \o plural(Len(st.imports), <<"m", "o", "d", "u", "l", "e">>)>>
                   ELSE <<>>
        parts == defines \o imports
    IN IF Len(parts) = 0 THEN EmptyFileSentence
       ELSE Join(parts, <<" ", "a", "n", "d", " ">>) \o <<".">>

\* String.prototype.toUpperCase of one character
ToUpperCase(c) ==
    IF c = "f" THEN "F" ELSE IF c = "c" THEN "C" ELSE IF c = "t" THEN "T"
    ELSE IF c = "v" THEN "V" ELSE c

\* outline, lines 152-160: the line of one node
OutlineEntry(node) ==
    IF node.kind = "function" /\ Len(node.params) > 0
    THEN <<" ", " ">> \o humanizeName(node.name) \o <<"(">>
         \o Join([i \in 1..Len(node.params) |-> node.params[i].name], <<",", " ">>)
         \o <<")">>
    ELSE <<" ", " ">> \o humanizeName(node.name)

\* outline, lines 146-161: the lines of one kind
OutlineOfKind(st, kind) ==
    LET nodes == SelectSeq(st.declarations, LAMBDA n : n.kind = kind)
        label == kindLabel(kind)
    IN IF nodes = <<>> THEN <<>>
       ELSE <<<<ToUpperCase(label[1])>> \o Tail(label) \o <<"s", " ", "(">>
              \o Decimal(Len(nodes)) \o <<")">>>>
            \o [i \in 1..Len(nodes) |-> OutlineEntry(nodes[i])]

\* outline, lines 135-164
outline(st) ==
    (IF Len(st.imports) > 0
     THEN <<<<"I", "m", "p", "o", "r", "t", "s", " ", "(">> \o Decimal(Len(st.imports)) \o <<")">>>>
          \o [i \in 1..Len(st.imports) |-> <<" ", " ">> \o st.imports[i].name]
     ELSE <<>>)
    \o OutlineOfKind(st, "function") \o OutlineOfKind(st, "class")
    \o OutlineOfKind(st, "type") \o OutlineOfKind(st, "variable")
    \o OutlineOfKind(st, "control")

\* a description of the parameters that leaves their types out
ParamDesc_NameOnly(p) == p.name

\* blockExplanation, lines 177-179
ParamDesc(p) ==
    IF Truthy(p.type) THEN p.name \o <<" ", "(">> \o p.type \o <<")">> ELSE p.name

\* blockExplanation, lines 172-185: the summary of a function
FunctionSummary(node) ==
    humanizeName(node.name) \o <<" ", "i", "s", " ">>
    \o (IF node.isAsync THEN <<"a", "n", " ", "a", "s", "y", "n", "c", " ">> ELSE <<"a", " ">>) \o <<"f", "u", "n", "c", "t", "i", "o", "n">>
    \o (IF Len(node.params) > 0
        THEN <<" ", "t", "h", "a", "t", " ", "t", "a", "k", "e", "s", " ">>
             \o Join([i \in 1..Len(node.params) |-> ParamDesc(node.params[i])], <<",", " ">>)
        ELSE <<>>)
    \o (IF Truthy(node.returnType) THEN <<" ", "a", "n", "d", " ", "r", "e", "t", "u", "r", "n", "s", " ">> \o node.returnType ELSE <<>>)
    \o <<".">>

\* a detail that lists every callee, however many there are
FunctionDetail_AllListed(childSummary) ==
    LET called == childSummary.calledFunctions
        calls == IF Len(called) > 0
                 THEN <<<<"c", "a", "l", "l", "s", " ">> \o Join(called, <<",", " ">>)>>
                 ELSE <<>>
        checks == IF childSummary.conditionCount > 0
                  THEN <<<<"c", "h", "e", "c", "k", "s", " ">> \o plural(childSummary.conditionCount, <<"c", "o", "n", "d", "i", "t", "i", "o", "n">>)>>
                  ELSE <<>>
        loops == IF childSummary.loopCount > 0
                 THEN <<<<"u", "s", "e", "s", " ">> \o plural(childSummary.loopCount, <<"l", "o", "o", "p">>)>>
                 ELSE <<>>
        returns == IF childSummary.returnCount > 0
                   THEN <<<<"r", "e", "t", "u", "r", "n", "s", " ">> \o plural(childSummary.returnCount, <<"v", "a", "l", "u", "e">>)>>
                   ELSE <<>>
        detailParts == calls \o checks \o loops \o returns
    IN IF Len(detailParts) > 0
       THEN <<"I", "n", "s", "i", "d", "e", ",", " ", "i", "t", " ">> \o Join(detailParts, <<",", " ">>) \o <<".">>
       ELSE <<>>

\* blockExplanation, lines 188-205: the detail of a function
FunctionDetail(childSummary) ==
    LET called == childSummary.calledFunctions
        calls == IF Len(called) > 0
                 THEN <<<<"c", "a", "l", "l", "s", " ">> \o Join(SubSeq(called, 1, Min(5, Len(called))), <<",", " ">>)
                        \o (IF Len(called) > 5 THEN <<" ", "a", "n", "d", " ", "m", "o", "r", "e">> ELSE <<>>)>>
                 ELSE <<>>
        checks == IF childSummary.conditionCount > 0
                  THEN <<<<"c", "h", "e", "c", "k", "s", " ">> \o plural(childSummary.conditionCount, <<"c", "o", "n", "d", "i", "t", "i", "o", "n">>)>>
                  ELSE <<>>
        loops == IF childSummary.loopCount > 0
                 THEN <<<<"u", "s", "e", "s", " ">> \o plural(childSummary.loopCount, <<"l", "o", "o", "p">>)>>
                 ELSE <<>>
        returns == IF childSummary.returnCount > 0
                   THEN <<<<"r", "e", "t", "u", "r", "n", "s", " ">> \o plural(childSummary.returnCount, <<"v", "a", "l", "u", "e">>)>>
                   ELSE <<>>
        detailParts == calls \o checks \o loops \o returns
    IN IF Len(detailParts) > 0
       THEN <<"I", "n", "s", "i", "d", "e", ",", " ", "i", "t", " ">> \o Join(detailParts, <<",", " ">>) \o <<".">>
       ELSE <<>>

\* blockExplanation, lines 210-227: the summary of a class
ClassSummary(node) ==
    LET methods == SelectSeq(node.children, LAMBDA c : c.kind = "function")
        props == SelectSeq(node.children, LAMBDA c : c.kind = "variable")
        names == [i \in 1..Min(5, Len(methods)) |-> humanizeName(methods[i].name)]
        parts == (IF Len(methods) > 0
                  THEN <<plural(Len(methods), <<"m", "e", "t", "h", "o", "d">>) \o <<" ", "(">>
                         \o Join(names, <<",", " ">>)
                         \o (IF Len(methods) > 5 THEN <<",", " ", ".", ".", ".">> ELSE <<>>) \o <<")">>>>
                  ELSE <<>>)
                 \o (IF Len(props) > 0 THEN <<plural(Len(props), <<"p", "r", "o", "p", "e", "r", "t", "y">>)>> ELSE <<>>)
    IN humanizeName(node.name) \o <<" ", "i", "s", " ", "a", " ">>
       \o (IF node.keyword = <<"t", "r", "a", "i", "t">> THEN <<"t", "r", "a", "i", "t">>
           ELSE IF node.keyword = <<"s", "t", "r", "u", "c", "t">> THEN <<"s", "t", "r", "u", "c", "t">> ELSE <<"c", "l", "a", "s", "s">>)
       \o (IF Len(parts) > 0 THEN <<" ", "w", "i", "t", "h", " ">> \o Join(parts, <<" ", "a", "n", "d", " ">>) ELSE <<>>)
       \o <<".">>

\* blockExplanation, lines 229-238: the summary of a variable
VariableSummary(node) ==
    IF node.keyword = <<"c", "o", "m", "p", "o", "n", "e", "n", "t">>
    THEN <<"U", "s", "e", "s", " ", "t", "h", "e", " ">> \o humanizeName(node.name) \o <<" ", "c", "o", "m", "p", "o", "n", "e", "n", "t", ".">>
    ELSE humanizeName(node.name) \o <<" ", "i", "s", " ", "a", " ">>
         \o (IF node.keyword = <<"c", "o", "n", "s", "t">> THEN <<"c", "o", "n", "s", "t", "a", "n", "t">>
             ELSE IF node.keyword = <<"l", "e", "t">> THEN <<"v", "a", "r", "i", "a", "b", "l", "e">> ELSE <<"v", "a", "l", "u", "e">>)
         \o (IF node.isExported THEN <<" ", "(", "e", "x", "p", "o", "r", "t", "e", "d", ")">> ELSE <<>>)
         \o <<".">>

\* blockExplanation, lines 240-243: the summary of a type
TypeSummary(node) ==
    LET typeKind == IF node.keyword = <<"i", "n", "t", "e", "r", "f", "a", "c", "e">> THEN <<"i", "n", "t", "e", "r", "f", "a", "c", "e">>
                    ELSE IF node.keyword = <<"e", "n", "u", "m">> THEN <<"e", "n", "u", "m">> ELSE <<"t", "y", "p", "e", " ", "a", "l", "i", "a", "s">>
    IN humanizeName(node.name) \o <<" ", "i", "s", " ">>
       \o (IF typeKind = <<"e", "n", "u", "m">> THEN <<"a", "n">> ELSE <<"a">>) \o <<" ">> \o typeKind \o <<".">>

\* the character U+2014
EmDash == "u2014"

\* blockExplanation, lines 250-255: what is said of a Svelte block
BlockDescription(blockType) ==
    IF blockType = <<"i", "f">> THEN <<"C", "o", "n", "d", "i", "t", "i", "o", "n", "a", "l", "l", "y", " ", "s", "h", "o", "w", "s", " ", "c", "o", "n", "t", "e", "n", "t", " ", "b", "a", "s", "e", "d", " ", "o", "n", " ", "a", " ", "v", "a", "l", "u", "e", ".">>
    ELSE IF blockType = <<"e", "a", "c", "h">> THEN <<"R", "e", "p", "e", "a", "t", "s", " ", "c", "o", "n", "t", "e", "n", "t", " ", "f", "o", "r", " ", "e", "a", "c", "h", " ", "i", "t", "e", "m", " ", "i", "n", " ", "a", " ", "l", "i", "s", "t", ".">>
    ELSE IF blockType = <<"a", "w", "a", "i", "t">>
    THEN <<"S", "h", "o", "w", "s", " ", "d", "i", "f", "f", "e", "r", "e", "n", "t", " ", "c", "o", "n", "t", "e", "n", "t", " ", "w", "h", "i", "l", "e", " ", "w", "a", "i", "t", "i", "n", "g", " ", "f", "o", "r", " ", "a", " ", "r", "e", "s", "u", "l", "t", ",", " ", "t", "h", "e", "n", " ", "w", "h", "e", "n", " ", "i", "t", " ", "a", "r", "r", "i", "v", "e", "s", ".">>
    ELSE IF blockType = <<"k", "e", "y">> THEN <<"R", "e", "-", "c", "r", "e", "a", "t", "e", "s", " ", "c", "o", "n", "t", "e", "n", "t", " ", "w", "h", "e", "n", "e", "v", "e", "r", " ", "a", " ", "v", "a", "l", "u", "e", " ", "c", "h", "a", "n", "g", "e", "s", ".">>
    ELSE <<"A", " ", "S", "v", "e", "l", "t", "e", " ">> \o blockType \o <<" ", "b", "l", "o", "c", "k", ".">>

\* blockExplanation, lines 245-259: the summary of a control st
ControlSummary(node) ==
    LET kw == node.keyword
        opened == SubSeq(kw, 3, Len(kw))
        blockType == IF opened # <<>> /\ opened[Len(opened)] = "}"
                     THEN SubSeq(opened, 1, Len(opened) - 1) ELSE opened
    IN IF StartsWith(kw, <<"{", "#">>)
       THEN humanizeName(node.name) \o <<" ", EmDash, " ">> \o BlockDescription(blockType)
       ELSE <<"A", " ", "c", "o", "n", "t", "r", "o", "l", " ", "s", "t", "r", "u", "c", "t", "u", "r", "e", " ", "(">> \o kw \o <<")", ".">>

\* blockExplanation, lines 166-264
blockExplanation(node) ==
    IF node.kind = "function"
    THEN [summary |-> FunctionSummary(node), detail |-> FunctionDetail(node.childSummary)]
    ELSE IF node.kind = "class" THEN [summary |-> ClassSummary(node), detail |-> <<>>]
    ELSE IF node.kind = "variable" THEN [summary |-> VariableSummary(node), detail |-> <<>>]
    ELSE IF node.kind = "type" THEN [summary |-> TypeSummary(node), detail |-> <<>>]
    ELSE IF node.kind = "control" THEN [summary |-> ControlSummary(node), detail |-> <<>>]
    ELSE [summary |-> humanizeName(node.name) \o <<" ", "(">> \o KindText[node.kind]
                      \o <<")", ".">>,
          detail |-> <<>>]

\* annotateFile, lines 65-87: the annotation of the imports as a group
ImportsAnnotation(st, doc) ==
    LET imports == st.imports
        importNames == SelectSeq([i \in 1..Len(imports) |-> imports[i].name],
                                 LAMBDA n : Len(n) < 60)
        groupNode == [kind |-> "import", name |-> <<"I", "m", "p", "o", "r", "t", "s">>, params |-> <<>>,
                      returnType |-> NoText, isAsync |-> FALSE, isExported |-> FALSE,
                      keyword |-> <<"i", "m", "p", "o", "r", "t">>,
                      from |-> imports[1].from, to |-> imports[Len(imports)].to,
                      children |-> <<>>, childSummary |-> emptySummary]
    IN [node |-> groupNode,
        summary |-> <<"T", "h", "i", "s", " ", "f", "i", "l", "e", " ", "i", "m", "p", "o", "r", "t", "s", " ", "f", "r", "o", "m", " ">> \o plural(Len(imports), <<"m", "o", "d", "u", "l", "e">>) \o <<".">>,
        detail |-> IF Len(importNames) > 0
                   THEN <<"M", "o", "d", "u", "l", "e", "s", ":", " ">> \o Join(importNames, <<",", " ">>) ELSE <<>>,
        code |-> sliceString(doc, groupNode.from, groupNode.to)]

\* annotateFile, lines 90-102: the annotation of one declaration
DeclAnnotation(decl, doc) ==
    LET nodeAnnotation == blockExplanation(decl)
    IN [node |-> decl, summary |-> nodeAnnotation.summary,
        detail |-> nodeAnnotation.detail, code |-> sliceString(doc, decl.from, decl.to)]

(***************************************************************************)
(* The structures the prose is written for.  The fields of a declaration   *)
(* are drawn from small sets; a declaration's code is its keyword and its  *)
(* name on a line of its own.                                              *)
(***************************************************************************)

ProseNode(kind, keyword, name) ==
    [kind |-> kind, name |-> name, params |-> <<>>, returnType |-> NoText,
     isAsync |-> FALSE, isExported |-> FALSE, keyword |-> keyword, from |-> 0, to |-> 0,
     children |-> <<>>, childSummary |-> emptySummary]

ParamLists ==
    {<<>>,
     <<[name |-> <<"x">>, type |-> <<"n", "u", "m", "b", "e", "r">>]>>,
     <<[name |-> <<"x">>, type |-> NoText], [name |-> <<"y">>, type |-> <<"s", "t", "r", "i", "n", "g">>]>>}

ReturnTypes == {NoText, <<"P", "r", "o", "m", "i", "s", "e", "<", "v", "o", "i", "d", ">">>}

SummaryOfCalls ==
    [callCount |-> 2, conditionCount |-> 0, loopCount |-> 1, returnCount |-> 0,
     calledFunctions |-> <<<<"b", "a", "r">>, <<"b", "a", "z">>>>]

FunctionNodes ==
    {[ProseNode("function", <<"f", "u", "n", "c", "t", "i", "o", "n">>, <<"f", "o", "o">>) EXCEPT
        !.isAsync = a, !.params = ps, !.returnType = rt, !.childSummary = SummaryOfCalls] :
     a \in BOOLEAN, ps \in ParamLists, rt \in ReturnTypes}

MaxCallees == 6
MaxCount == 2

\* the names of n callees
CalleeNames(n) == [i \in 1..n |-> <<"f">> \o Decimal(i)]

\* the summaries of a function body with up to MaxCallees distinct callees,
\* with or without one more call whose callee has no name, and up to MaxCount
\* conditions, loops and returns
DetailSummaries ==
    {[callCount |-> n + unnamed, conditionCount |-> c, loopCount |-> l, returnCount |-> r,
      calledFunctions |-> CalleeNames(n)] :
        n \in 0..MaxCallees, unnamed \in 0..1, c \in 0..MaxCount, l \in 0..MaxCount,
        r \in 0..MaxCount}

DetailNodes ==
    {[ProseNode("function", <<"f", "u", "n", "c", "t", "i", "o", "n">>, <<"f", "o", "o">>) EXCEPT !.childSummary = s] :
        s \in DetailSummaries}

MaxSameKind == 5

\* a name of forty characters, which humanizeName leaves as it is
LongName == [i \in 1..40 |-> "x"]

\* n functions named g1, g2, ...
ShortFunctions(n) ==
    [i \in 1..n |-> ProseNode("function", <<"f", "u", "n", "c", "t", "i", "o", "n">>, <<"g">> \o Decimal(i))]

\* the declarations of a file with up to MaxSameKind functions of short names,
\* with or without one more function of a long name and one variable
ManyDecls ==
    {ShortFunctions(n)
     \o (IF long THEN <<ProseNode("function", <<"f", "u", "n", "c", "t", "i", "o", "n">>, LongName)>> ELSE <<>>)
     \o (IF var THEN <<ProseNode("variable", <<"c", "o", "n", "s", "t">>, <<"v">>)>> ELSE <<>>) :
        n \in 0..MaxSameKind, long \in BOOLEAN, var \in BOOLEAN}

OtherNodes ==
    {ProseNode("function", <<"f", "u", "n", "c", "t", "i", "o", "n">>, <<"l", "o", "g", "i", "n", "U", "s", "e", "r">>),
     [ProseNode("class", <<"c", "l", "a", "s", "s">>, <<"U", "s", "e", "r", "S", "t", "o", "r", "e">>) EXCEPT
        !.children = <<ProseNode("function", <<"s", "a", "v", "e">>, <<"s", "a", "v", "e">>),
                       ProseNode("variable", <<"c", "o", "u", "n", "t">>, <<"c", "o", "u", "n", "t">>)>>],
     [ProseNode("variable", <<"c", "o", "n", "s", "t">>, <<"i", "s", "_", "v", "a", "l", "i", "d">>) EXCEPT !.isExported = TRUE],
     ProseNode("type", <<"i", "n", "t", "e", "r", "f", "a", "c", "e">>, <<"U", "s", "e", "r">>),
     ProseNode("control", <<"{", "#", "i", "f", "}">>, <<"i", "f", ":", " ", "r", "e", "a", "d", "y">>)}

ImportNodes == <<ProseNode("import", <<"i", "m", "p", "o", "r", "t">>, <<"a">>), ProseNode("import", <<"i", "m", "p", "o", "r", "t">>, <<"b">>)>>

\* the code of a node: its keyword and its name
CodeOf(node) == node.keyword \o <<" ">> \o node.name

RECURSIVE Placed(_, _)
\* the nodes one per line from offset `at` on, each with the span of its line;
\* the children of a node span what the node spans
Placed(nodes, at) ==
    IF nodes = <<>> THEN <<>>
    ELSE LET node == nodes[1]
             to == at + Len(CodeOf(node))
         IN <<[node EXCEPT !.from = at, !.to = to,
                           !.children = [i \in 1..Len(node.children) |->
                                            [node.children[i] EXCEPT !.from = at,
                                                                     !.to = to]]]>>
            \o Placed(Tail(nodes), to + 1)

\* a file of the given imports and declarations: its structure and its text
ProseFile(imports, decls) ==
    LET placed == Placed(imports \o decls, 0)
    IN [structure |-> [imports |-> SubSeq(placed, 1, Len(imports)),
                       exports |-> <<>>,
                       declarations |-> SubSeq(placed, Len(imports) + 1, Len(placed)),
                       language |-> "js"],
        doc |-> Join([i \in 1..Len(placed) |-> CodeOf(placed[i])], <<"\n">>)]

\* the files of up to MaxDecls declarations, with and without an import, the
\* files of one function with each of the summaries, and the files of many
\* declarations of one kind
ProseInputs ==
    {ProseFile(SubSeq(ImportNodes, 1, k), decls) :
        k \in 0..1,
        decls \in UNION {[1..n -> FunctionNodes \cup OtherNodes] : n \in 0..MaxDecls}}
    \cup {ProseFile(<<>>, <<d>>) : d \in DetailNodes}
    \cup {ProseFile(<<>>, decls) : decls \in ManyDecls}

ProseStep == UNCHANGED <<panelVars, extractVars, conceptVars>>

\* annotateFile, lines 58-87: the file summary, the outline and the imports
AnnotateBegin ==
    /\ ppc = "begin"
    /\ annotated' =
          [fileSummary |-> fileSummary(pin.structure),
           outline |-> outline(pin.structure),
           nodes |-> IF Len(pin.structure.imports) > 0
                     THEN <<ImportsAnnotation(pin.structure, pin.doc)>> ELSE <<>>]
    /\ pnext' = 1
    /\ ppc' = "declarations"
    /\ UNCHANGED <<pin, outlineVars>>
    /\ ProseStep

\* annotateFile, lines 90-102: one iteration of the loop over the declarations
AnnotateDecl ==
    /\ ppc = "declarations"
    /\ pnext <= Len(pin.structure.declarations)
    /\ annotated' = [annotated EXCEPT !.nodes =
                        Append(@, DeclAnnotation(pin.structure.declarations[pnext],
                                                 pin.doc))]
    /\ pnext' = pnext + 1
    /\ UNCHANGED <<pin, ppc, outlineVars>>
    /\ ProseStep

\* annotateFile, line 104
AnnotateReturn ==
    /\ ppc = "declarations"
    /\ pnext > Len(pin.structure.declarations)
    /\ ppc' = "done"
    /\ UNCHANGED <<pin, pnext, annotated, outlineVars>>
    /\ ProseStep

\* annotateFile and buildOutline called for the same file
ProseInit ==
    /\ pin \in ProseInputs
    /\ ppc = "begin"
    /\ pnext = 1
    /\ annotated = [fileSummary |-> <<>>, outline |-> <<>>, nodes |-> <<>>]
    /\ oin = pin
    /\ opc = "imports"
    /\ nextId = 1
    /\ nodeMap = <<>>
    /\ lines = <<>>
    /\ todo = <<>>

ProseNext ==
    \/ AnnotateBegin \/ AnnotateDecl \/ AnnotateReturn
    \/ OutlineImports \/ WalkNode \/ OutlineReturn

-----------------------------------------------------------------------------
(***************************************************************************)
(* describeFile and BookPanel.update                                       *)
(*                                                                         *)
(* A content is the pair of the text it is a prefix of and its length, so  *)
(* that slice(0, n) is the same text cut to n characters.                  *)
(***************************************************************************)

MAX_CONTENT_SIZE == 30000

CACHE_VERSION == "v5-prose"

\* What the describe-file handler can answer: {text} with a non-empty text,
\* or {error}.
ServiceAnswers == {[text |-> "t1"], [text |-> "t2"], [error |-> "e1"]}

\* content.slice(0, n)
SliceContent(content, n) ==
    [src |-> content.src, len |-> IF content.len < n THEN content.len ELSE n]

\* hashKey: SHA-256 of CACHE_VERSION \0 filename \0 content
hashKey(filename, content) == <<CACHE_VERSION, filename, content>>

\* the files openFile reads
Files == {<<"a.js", [src |-> "A", len |-> MAX_CONTENT_SIZE]>>,
          <<"b.js", [src |-> "A", len |-> MAX_CONTENT_SIZE + 1]>>,
          <<"c.svelte", [src |-> "S", len |-> MAX_CONTENT_SIZE]>>}

\* cache.get(key): the text, or None when the key is absent
CacheGet(key) == IF key \in DOMAIN cache THEN cache[key] ELSE None

\* describeFile, lines 39-44: the content sent and the truncated flag
TruncatedContent(content) ==
    IF content.len > MAX_CONTENT_SIZE
    THEN [fileContent |-> SliceContent(content, MAX_CONTENT_SIZE), truncated |-> TRUE]
    ELSE [fileContent |-> content, truncated |-> FALSE]

\* describeFile, line 37: the result of a cache hit
CachedResult(cached) == [text |-> cached]

\* describeFile, line 52: { ...result, truncated }
FinalResult(result, truncated) == result @@ [truncated |-> truncated]

\* a describeFile that stores a text only for a key that has none
CacheAfter_KeepsFirst(key, result) ==
    IF "text" \in DOMAIN result /\ key \notin DOMAIN cache
    THEN [k \in DOMAIN cache \cup {key} |-> IF k = key THEN result.text ELSE cache[k]]
    ELSE cache

\* a describeFile that stores a text only while the panel still waits for the
\* file of the key
CacheAfter_ShownOnly(key, result) ==
    IF "text" \in DOMAIN result /\ display.kind = "loading" /\ display.filename = key[2]
    THEN [k \in DOMAIN cache \cup {key} |-> IF k = key THEN result.text ELSE cache[k]]
    ELSE cache

\* a describeFile that never stores the text it received
CacheAfter_NoStore(key, result) == cache

\* a describeFile whose cache holds the last text only
CacheAfter_LastOnly(key, result) ==
    IF "text" \in DOMAIN result THEN (key :> result.text) ELSE cache

\* describeFile, lines 48-50: cache.set(key, result.text) when result.text
CacheAfter(key, result) ==
    IF "text" \in DOMAIN result
    THEN [k \in DOMAIN cache \cup {key} |-> IF k = key THEN result.text ELSE cache[k]]
    ELSE cache

\* an update that never discards a response
IsStale_NoCheck(id) == FALSE

\* an update that discards every response
IsStale_Always(id) == TRUE

\* BookPanel.update, line 268: the response is stale
IsStale(id) == id # requestId

\* renderLoading / renderError / renderProse
LoadingView(id, filename) == [kind |-> "loading", req |-> id, filename |-> filename]
ErrorView(id, message) == [kind |-> "error", req |-> id, message |-> message]
ProseView(id, filename, result) ==
    [kind |-> "prose", req |-> id, filename |-> filename, text |-> result.text,
     note |-> ("truncated" \in DOMAIN result /\ result.truncated = TRUE)]

\* an update that renders nothing for an error
DisplayAfter_ErrorsDropped(id, filename, result) ==
    IF IsStale(id) \/ "error" \in DOMAIN result THEN display
    ELSE ProseView(id, filename, result)

\* BookPanel.update, lines 268-275: what the panel shows once describeFile
\* has returned `result` to the update call that captured `id`
DisplayAfter(id, filename, result) ==
    IF IsStale(id) THEN display
    ELSE IF "error" \in DOMAIN result THEN ErrorView(id, result.error)
    ELSE ProseView(id, filename, result)

\* the declarations the texts of the files begin with; the rest of a text holds
\* none.  Text A is a script, text S a Svelte component.
FnExpr(w) ==
    Nd("FunctionExpression",
       <<Kw("function"), Sp(Tk("VariableDefinition", w)), Params(<<>>), Sp(BodyEmpty)>>)
Sources ==
    [A |-> Nd("Script",
              Lines(<<Fn("foo", <<>>, BodyCall),
                      Nd("ExpressionStatement",
                         <<Nd("CallExpression",
                              <<Tk("VariableName", "foo"),
                                Nd("ArgList", <<Kw("("), FnExpr("bar"), Kw(")")>>)>>),
                           Kw(";")>>)>>)),
     S |-> Nd("Document",
              <<Nd("Element",
                   <<Tk("OpenTag", "<script>"),
                     Nl(Nd("Script", <<Const("v", Call("foo"))>>)),
                     Nl(Tk("CloseTag", "</script>"))>>)>>)]

\* the state of the view that holds a content: its tree and its document
ViewOf(content) == Lay(Sources[content.src], 0)

RECURSIVE extractSvelteNodes(_, _, _, _, _)
\* the traversal after the enter callback has returned r for the i-th node
AfterEnter(r, order, i, doc) ==
    extractSvelteNodes(r.structure, r.seen, order,
                       IF r.descend THEN i + 1 ELSE i + order[i].size, doc)

\* extractSvelteNodes from the i-th node of the traversal on
extractSvelteNodes(st, seen, order, i, doc) ==
    IF i > Len(order) THEN st
    ELSE AfterEnter(svelteEnter(st, seen, order[i].node, order[i].ctx, doc),
                    order, i, doc)

\* extractFileStructure(view, filename): the whole call
extractFileStructure(view, filename) ==
    LET lang == detectLanguage(Chars[filename])
    IN IF lang = "svelte"
       THEN extractSvelteNodes(FreshStructure(lang), {},
                               Preorder(view.node, Ctx(None, None)), 1, view.text)
       ELSE walkJsNodes(FreshStructure(lang), view.node, 1, view.text, lang)

\* BookPanel.update, line 252: the structure extracted under a filename from
\* the view that holds a content, for each of the files
Extracted ==
    [src \in DOMAIN Sources |->
        [filename \in {file[1] : file \in Files} |->
            extractFileStructure(ViewOf([src |-> src]), filename)]]

\* source.slice(from, to)
SliceOf(source, from, to) ==
    LET clip(n) == IF n > source.len THEN source.len ELSE n
    IN [src |-> source.src, from |-> clip(from), to |-> clip(to)]

\* Map.set(name, code): the entry of the name is replaced
SetEntry(map, name, code) ==
    {e \in map : e.name # name} \cup {[name |-> name, code |-> code]}

RECURSIVE indexNode(_, _, _)
RECURSIVE IndexNodes(_, _, _, _)
\* BookPanel.indexNode
indexNode(map, node, source) ==
    IndexNodes(IF node.name # <<>> /\ node.kind # "import"
               THEN SetEntry(map, node.name, SliceOf(source, node.from, node.to))
               ELSE map,
               node.children, 1, source)
IndexNodes(map, nodes, i, source) ==
    IF i > Len(nodes) THEN map
    ELSE IndexNodes(indexNode(map, nodes[i], source), nodes, i + 1, source)

\* BookPanel.update, line 253
TotalNodes(st) == Len(st.imports) + Len(st.declarations)

\* BookPanel.update, lines 252-263: the outline and the symbol map built from
\* the tree the view holds now, sliced out of the content of this call.  The
\* nodeMap holds the import group, which indexNode skips, and every
\* declaration at every depth.
OutlineOf(tree, content) == [tree |-> tree, text |-> content]
IndexedSymbols(map, st, content) ==
    IF TotalNodes(st) > 0 THEN IndexNodes(map, st.declarations, 1, content) ELSE map

\* a step of the panel leaves the other components alone
PanelStep == UNCHANGED <<extractVars, outlineVars, conceptVars, proseVars>>

\* BookPanel.update, line 245: let outline = ""
EmptyOutline == [empty |-> TRUE]

\* describeFile has not returned yet
NoResult == [pending |-> TRUE]

IdleProc ==
    [pc |-> "idle", filename |-> None, content |-> None, view |-> FALSE,
     outline |-> EmptyOutline, result |-> NoResult, invoked |-> FALSE,
     dropped |-> FALSE,
     prior |-> {}, priorErrors |-> {}]

\* the calls with the key of (filename, content) that have returned a text
ReturnedTexts(filename, content) ==
    {<<i, procs[i].result.text>> : i \in
        {i \in DOMAIN procs : /\ procs[i].pc = "done"
                              /\ procs[i].filename = filename
                              /\ procs[i].content = content
                              /\ "text" \in DOMAIN procs[i].result}}

\* the calls with the key of (filename, content) that have returned an error
ReturnedErrors(filename, content) ==
    {i \in DOMAIN procs : /\ procs[i].pc = "done"
                          /\ procs[i].filename = filename
                          /\ procs[i].content = content
                          /\ "error" \in DOMAIN procs[i].result}

\* openFile -> BookPanel.update(content, filename, view), up to its first await.
\* The call site passes a view on every call or on none.
Update(content, filename, view) ==
    /\ requestId < MaxUpdates
    /\ requestId > 0 => view = procs[1].view
    /\ LET id == requestId + 1 IN
       /\ requestId' = id
       /\ display' = LoadingView(id, filename)
       /\ symbolCodeMap' = {}
       /\ viewDoc' = content
       /\ procs' = [procs EXCEPT ![id] =
              [@ EXCEPT !.pc = IF view THEN "delay" ELSE "hash",
                        !.filename = filename, !.content = content,
                        !.view = view, !.outline = EmptyOutline,
                        !.prior = IF view THEN {} ELSE ReturnedTexts(filename, content),
                        !.priorErrors = IF view THEN {}
                                        ELSE ReturnedErrors(filename, content)]]
    /\ UNCHANGED <<cache, sent>>
    /\ PanelStep

\* BookPanel.update after the 200 ms delay: the outline and the indexNode
\* calls for the structure st extractFileStructure returned, then the call of
\* describeFile up to its await of hashKey
Indexed(id, st) ==
    /\ symbolCodeMap' = IndexedSymbols(symbolCodeMap, st, procs[id].content)
    /\ procs' = [procs EXCEPT ![id] =
           [@ EXCEPT !.pc = "hash",
                     !.outline = IF TotalNodes(st) > 0
                                 THEN OutlineOf(viewDoc, procs[id].content)
                                 ELSE EmptyOutline,
                     !.prior = ReturnedTexts(procs[id].filename, procs[id].content),
                     !.priorErrors = ReturnedErrors(procs[id].filename,
                                                    procs[id].content)]]

\* the timers of equal delay fire in the order the calls set them
DelayDone(id) ==
    /\ procs[id].pc = "delay"
    /\ \A j \in 1..(id - 1) : procs[j].pc # "delay"
    /\ Indexed(id, Extracted[viewDoc.src][procs[id].filename])
    /\ UNCHANGED <<requestId, display, viewDoc, cache, sent>>
    /\ PanelStep

\* describeFile after hashKey, on a cache hit: it returns the cached text and
\* BookPanel.update resumes
HashDoneHit(id) ==
    /\ procs[id].pc = "hash"
    /\ LET p == procs[id]
           cached == CacheGet(hashKey(p.filename, p.content))
           result == CachedResult(cached)
       IN /\ cached # None
          /\ display' = DisplayAfter(id, p.filename, result)
          /\ procs' = [procs EXCEPT ![id] =
                 [@ EXCEPT !.pc = "done", !.result = result,
                           !.dropped = IsStale(id)]]
    /\ UNCHANGED <<requestId, symbolCodeMap, viewDoc, cache, sent>>
    /\ PanelStep

\* describeFile after hashKey, on a cache miss: truncation and the request
HashDoneMiss(id) ==
    /\ procs[id].pc = "hash"
    /\ LET p == procs[id]
           t == TruncatedContent(p.content)
       IN /\ CacheGet(hashKey(p.filename, p.content)) = None
          /\ sent' = Append(sent, [call |-> id, filename |-> p.filename,
                                   fileContent |-> t.fileContent,
                                   outline |-> p.outline])
          /\ procs' = [procs EXCEPT ![id] =
                 [@ EXCEPT !.pc = "service", !.invoked = TRUE]]
    /\ UNCHANGED <<requestId, display, symbolCodeMap, viewDoc, cache>>
    /\ PanelStep

\* the service answers; describeFile caches, returns, and BookPanel.update
\* resumes
ServiceAnswer(id, answer) ==
    /\ procs[id].pc = "service"
    /\ LET p == procs[id]
           key == hashKey(p.filename, p.content)
           result == FinalResult(answer, TruncatedContent(p.content).truncated)
       IN /\ cache' = CacheAfter(key, answer)
          /\ display' = DisplayAfter(id, p.filename, result)
          /\ procs' = [procs EXCEPT ![id] =
                 [@ EXCEPT !.pc = "done", !.result = result,
                           !.dropped = IsStale(id)]]
    /\ UNCHANGED <<requestId, symbolCodeMap, viewDoc, sent>>
    /\ PanelStep

PanelInit ==
    /\ requestId = 0
    /\ display = [kind |-> "empty"]
    /\ symbolCodeMap = {}
    /\ viewDoc = None
    /\ cache = <<>>
    /\ procs = [i \in 1..MaxUpdates |-> IdleProc]
    /\ sent = <<>>

PanelNext ==
    \/ \E file \in Files, v \in BOOLEAN : Update(file[2], file[1], v)
    \/ \E id \in 1..MaxUpdates : DelayDone(id)
    \/ \E id \in 1..MaxUpdates : HashDoneHit(id)
    \/ \E id \in 1..MaxUpdates : HashDoneMiss(id)
    \/ \E id \in 1..MaxUpdates, a \in ServiceAnswers : ServiceAnswer(id, a)

\* the update calls whose describeFile call went to the service for the key
\* of (filename, content)
Invokers(filename, content) ==
    {k \in DOMAIN procs : /\ procs[k].invoked
                          /\ procs[k].filename = filename
                          /\ procs[k].content = content}

Returned(j) == procs[j].pc = "done"

\* C1: the panel shows prose or an error only for the request issued by the
\* most recent update call, and what it shows is what describeFile returned to
\* that call; a response whose captured id is no longer the panel's requestId
\* is rendered nowhere.
C1_OnlyLatestRequestShown ==
    display.kind \in {"prose", "error"} =>
        /\ display.req = requestId
        /\ Returned(display.req)
        /\ ~procs[display.req].dropped
        /\ display.kind = "prose" => display.text = procs[display.req].result.text
        /\ display.kind = "error" => display.message = procs[display.req].result.error

\* C1 witness: a superseded request completed late and was dropped, and the
\* panel shows the prose of the latest request.
C1_Witness ==
    /\ display.kind = "prose"
    /\ display.req = requestId
    /\ \E j \in DOMAIN procs :
          j < requestId /\ Returned(j) /\ procs[j].dropped /\ procs[j].invoked

\* C2 as stated: of two describeFile calls with the same filename and content,
\* the first having returned a text before the second starts, the second
\* returns the text the first returned and the service was invoked exactly
\* once for them in total.
C2_SecondReturnsFirstText ==
    \A j \in DOMAIN procs : Returned(j) =>
        \A pr \in procs[j].prior :
            /\ "text" \in DOMAIN procs[j].result
            /\ procs[j].result.text = pr[2]
            /\ Cardinality(Invokers(procs[j].filename, procs[j].content)) = 1

\* C2 amended: the second call does not invoke the service and returns the
\* text cached for the key, which is a text the service returned for that
\* filename and content; it is the text the first call returned whenever only
\* one call with that filename and content went to the service.
C2_SecondServedFromCache ==
    \A j \in DOMAIN procs : (Returned(j) /\ procs[j].prior # {}) =>
        LET inv == Invokers(procs[j].filename, procs[j].content) IN
        /\ ~procs[j].invoked
        /\ "text" \in DOMAIN procs[j].result
        /\ \E k \in inv : /\ Returned(k)
                          /\ "text" \in DOMAIN procs[k].result
                          /\ procs[k].result.text = procs[j].result.text
        /\ Cardinality(inv) = 1 =>
               \A pr \in procs[j].prior : procs[j].result.text = pr[2]

\* C2 witness: a call has returned that started after an earlier call with
\* the same filename and content had returned a text from the service.
C2_Witness ==
    \E j \in DOMAIN procs :
        /\ Returned(j)
        /\ \E pr \in procs[j].prior : procs[pr[1]].invoked

\* C3 as stated: for every describeFile call, content longer than
\* MAX_CONTENT_SIZE is sent cut to exactly MAX_CONTENT_SIZE characters and the
\* returned result carries truncated = true; content at or under the limit is
\* sent unmodified and truncated is absent or false.
C3_TruncationFlag ==
    \A j \in DOMAIN procs :
        LET p == procs[j]
            reqs == {sent[n] : n \in {n \in DOMAIN sent : sent[n].call = j}}
        IN p.pc \in {"service", "done"} =>
           IF p.content.len > MAX_CONTENT_SIZE
           THEN /\ \A r \in reqs :
                     /\ r.fileContent.len = MAX_CONTENT_SIZE
                     /\ r.fileContent.src = p.content.src
                /\ Returned(j) =>
                      ("truncated" \in DOMAIN p.result /\ p.result.truncated = TRUE)
           ELSE /\ \A r \in reqs : r.fileContent = p.content
                /\ Returned(j) =>
                      ("truncated" \in DOMAIN p.result => p.result.truncated = FALSE)

-----------------------------------------------------------------------------
\* ProsePanel.update, lines 54-55, and BookPanel.update, lines 252-257: the
\* structure extractFileStructure has returned is passed, with the text it was
\* extracted from, to annotateFile and to buildOutline
Handoff ==
    /\ xpc = "ready"
    /\ runs # <<>>
    /\ ppc = None
    /\ pin' = [structure |-> runs[Len(runs)], doc |-> xin.doc]
    /\ ppc' = "begin"
    /\ pnext' = 1
    /\ annotated' = [fileSummary |-> <<>>, outline |-> <<>>, nodes |-> <<>>]
    /\ oin' = pin'
    /\ opc' = "imports"
    /\ nextId' = 1
    /\ nodeMap' = <<>>
    /\ lines' = <<>>
    /\ todo' = <<>>
    /\ UNCHANGED <<panelVars, extractVars, conceptVars>>

\* a call of extractFileStructure by a panel: the handler that makes it runs
\* alone, so none starts while annotateFile or buildOutline is under way
PanelExtract ==
    /\ ppc = None \/ (ppc = "done" /\ opc = "done")
    /\ ExtractBegin

PipelineNext ==
    \/ PanelExtract \/ WalkJsStep \/ SvelteEnterStep \/ ExtractReturn
    \/ Handoff
    \/ AnnotateBegin \/ AnnotateDecl \/ AnnotateReturn
    \/ OutlineImports \/ WalkNode \/ OutlineReturn

(* The components at rest *)

ExtractIdle ==
    /\ xin = None /\ xpc = None /\ xcur = None /\ xseen = None
    /\ structure = None /\ runs = None

OutlineIdle ==
    /\ oin = None /\ opc = None /\ nextId = None /\ nodeMap = None
    /\ lines = None /\ todo = None

ConceptIdle == cin = None /\ cpc = None /\ instances = None /\ tip = None

ProseIdle == pin = None /\ ppc = None /\ pnext = None /\ annotated = None

PanelIdle ==
    /\ requestId = None /\ display = None /\ symbolCodeMap = None
    /\ viewDoc = None /\ cache = None /\ procs = None /\ sent = None

-----------------------------------------------------------------------------
(* The BookPanel with its describeFile calls and the service *)

Init == PanelInit /\ ExtractIdle /\ OutlineIdle /\ ConceptIdle /\ ProseIdle

Next == PanelNext

Spec == Init /\ [][Next]_vars

\* The event loop runs every timer that is due and every continuation whose
\* promise is settled, and the service answers every request it receives.
Fairness ==
    \A id \in 1..MaxUpdates :
        /\ WF_vars(DelayDone(id))
        /\ WF_vars(HashDoneHit(id) \/ HashDoneMiss(id))
        /\ WF_vars(\E a \in ServiceAnswers : ServiceAnswer(id, a))

SpecLive == Init /\ [][Next]_vars /\ Fairness

-----------------------------------------------------------------------------
(* extractFileStructure run on a file, twice *)

InitExtract == ExtractInit /\ PanelIdle /\ OutlineIdle /\ ConceptIdle /\ ProseIdle

SpecExtract == InitExtract /\ [][ExtractNext]_vars

(* buildOutline run on the structure of a file *)

InitOutline == OutlineInit /\ PanelIdle /\ ExtractIdle /\ ConceptIdle /\ ProseIdle

SpecOutline == InitOutline /\ [][OutlineNext]_vars

(* extractConcepts run on the tree of a file *)

InitConcepts == ConceptInit /\ PanelIdle /\ ExtractIdle /\ OutlineIdle /\ ProseIdle

SpecConcepts == InitConcepts /\ [][ConceptNext]_vars

(* annotateFile and buildOutline run on the structure of a file *)

InitProse == ProseInit /\ PanelIdle /\ ExtractIdle /\ ConceptIdle

SpecProse == InitProse /\ [][ProseNext]_vars

-----------------------------------------------------------------------------
(* extractFileStructure run on a file, and annotateFile and buildOutline run *)
(* on the structure it returns                                              *)

InitPipeline == ExtractInit /\ PanelIdle /\ OutlineIdle /\ ConceptIdle /\ ProseIdle

SpecPipeline == InitPipeline /\ [][PipelineNext]_vars

(* What the extracted structure says about the tree it was extracted from *)

\* the language the FileNodes are built for (extractSvelteNodes passes "js")
BuildLang == IF Lang = "svelte" THEN "js" ELSE Lang

RECURSIVE FileNodesUnder(_)
\* a FileNode and the FileNodes nested in it through children
FileNodesUnder(fileNode) ==
    {fileNode} \cup UNION {FileNodesUnder(fileNode.children[i]) :
                              i \in 1..Len(fileNode.children)}

\* every FileNode of a structure, in its three lists and at any depth
FileNodesOf(st) ==
    LET all == st.imports \o st.exports \o st.declarations
    IN UNION {FileNodesUnder(all[i]) : i \in 1..Len(all)}

RECURSIVE Paths(_)
\* the nodes of the tree under t, each as the child indices that lead to it
Paths(t) ==
    {<<>>} \cup UNION {{<<i>> \o p : p \in Paths(t.kids[i])} : i \in 1..Len(t.kids)}

RECURSIVE At(_, _)
At(t, p) == IF p = <<>> THEN t ELSE At(t.kids[p[1]], Tail(p))

RECURSIVE NodesUnder(_)
\* a syntax node and its descendants
NodesUnder(t) == {t} \cup UNION {NodesUnder(t.kids[i]) : i \in 1..Len(t.kids)}

\* the syntax nodes a FileNode of kind function can have been built from
FunctionNodesFor(fileNode) ==
    {T \in NodesUnder(xin.tree) :
        /\ T.from = fileNode.from
        /\ T.to = fileNode.to
        /\ classifyNode(T, BuildLang) = "function"}

\* the descendants of T that are not inside a function-like node nested in T
OwnPaths(T) ==
    {p \in Paths(T) \ {<<>>} :
        \A k \in 1..(Len(p) - 1) : classifyNode(At(T, SubSeq(p, 1, k)), BuildLang) # "function"}

\* the descendants of T that are inside a function-like node nested in T
NestedPaths(T) == Paths(T) \ (OwnPaths(T) \cup {<<>>})

\* how many of the nodes of T at the paths `own` have one of the names
CountAt(T, own, names) == Cardinality({p \in own : At(T, p).name \in names})

\* the callee names of the call nodes of T at the paths `own`
CalleesAt(T, own) ==
    {CalleeName(At(T, p), xin.doc) : p \in {q \in own : At(T, q).name \in callNodes}}
    \ {<<>>}

\* C4: for every function declaration F the extractor builds, at any depth,
\* the counts of F.childSummary are the numbers of call, condition, loop and
\* return nodes below F that are not inside a function-like node nested in F,
\* and calledFunctions holds the callee names of exactly those call nodes: a
\* node inside a nested function-like node is never counted in F, and a
\* nested function that is a child of F counts its own nodes the same way.
C4_NestedNotCounted ==
    \A F \in FileNodesOf(structure) :
        F.kind = "function" =>
            /\ FunctionNodesFor(F) # {}
            /\ \A T \in FunctionNodesFor(F) :
                  LET own == OwnPaths(T)
                      summary == F.childSummary
                  IN /\ summary.callCount = CountAt(T, own, callNodes)
                     /\ summary.conditionCount = CountAt(T, own, conditionNodes)
                     /\ summary.loopCount = CountAt(T, own, loopNodes)
                     /\ summary.returnCount = CountAt(T, own, returnNodes)
                     /\ {summary.calledFunctions[i] :
                            i \in 1..Len(summary.calledFunctions)} = CalleesAt(T, own)

\* C4 witness: a function was extracted that has a call of its own and a
\* nested function with a call in it; the outer function reports one call,
\* to foo, and its child reports one call, to bar.
C4_Witness ==
    \E F \in FileNodesOf(structure) :
        /\ F.kind = "function"
        /\ F.childSummary.callCount = 1
        /\ F.childSummary.calledFunctions = <<Chars["foo"]>>
        /\ \E T \in FunctionNodesFor(F) :
              \E p \in NestedPaths(T) : At(T, p).name \in callNodes
        /\ \E i \in 1..Len(F.children) :
              /\ F.children[i].kind = "function"
              /\ F.children[i].childSummary.callCount = 1
              /\ F.children[i].childSummary.calledFunctions = <<Chars["bar"]>>

\* C7: every FileNode of the structure, in imports, exports and declarations
\* and at any depth, has 0 <= from <= to <= length of the source, and the
\* span of each of its children lies within its own span.
C7_SpansWithinSource ==
    \A F \in FileNodesOf(structure) :
        /\ 0 <= F.from
        /\ F.from <= F.to
        /\ F.to <= Len(xin.doc)
        /\ \A i \in 1..Len(F.children) :
              /\ F.from <= F.children[i].from
              /\ F.children[i].to <= F.to

\* C7 witness: the structure has an import, an export and a declaration whose
\* child has a child of its own.
C7_Witness ==
    /\ structure.imports # <<>>
    /\ structure.exports # <<>>
    /\ \E F \in FileNodesOf(structure) :
          \E i \in 1..Len(F.children) : F.children[i].children # <<>>

Walked ==
    IF xpc = "walk" THEN {xin.tree.kids[i] : i \in 1..Min(xcur - 1, Len(xin.tree.kids))}
    ELSE {}

\* the entries of a list that span what the syntax node spans
EntriesFor(list, node) ==
    {i \in 1..Len(list) : list[i].from = node.from /\ list[i].to = node.to}

Classifiable(node) ==
    {node.kids[i] : i \in {j \in 1..Len(node.kids) : classifyNode(node.kids[j], Lang) # None}}

\* C10 as stated: for every top-level export wrapper of a non-template file,
\* each classifiable inner child is in declarations (imports for an import)
\* with isExported = TRUE and has exactly one entry in exports, of kind export;
\* the wrapper itself is in exports only when it has no classifiable inner
\* child.
C10_WrapperOnlyWhenNoInner ==
    \A W \in Walked :
        W.name = "ExportDeclaration" =>
            /\ \A inner \in Classifiable(W) :
                  /\ \E i \in EntriesFor(structure.declarations \o structure.imports, inner) :
                        (structure.declarations \o structure.imports)[i].isExported
                  /\ Cardinality(EntriesFor(structure.exports, inner)) = 1
                  /\ \A i \in EntriesFor(structure.exports, inner) :
                        structure.exports[i].kind = "export"
            /\ EntriesFor(structure.exports, W) # {} => Classifiable(W) = {}

-----------------------------------------------------------------------------
(* What the outline builder does with a structure *)

RECURSIVE PathsUnder(_)
\* the nodes nested in a FileNode through children, as child indices
PathsUnder(fileNode) ==
    {<<>>} \cup UNION {{<<i>> \o p : p \in PathsUnder(fileNode.children[i])} :
                          i \in 1..Len(fileNode.children)}

\* the declaration nodes of the structure buildOutline is given: the index of
\* a top-level declaration followed by child indices
DeclPaths ==
    UNION {{<<i>> \o p : p \in PathsUnder(oin.structure.declarations[i])} :
              i \in 1..Len(oin.structure.declarations)}

RECURSIVE ChildAt(_, _)
ChildAt(fileNode, p) ==
    IF p = <<>> THEN fileNode ELSE ChildAt(fileNode.children[p[1]], Tail(p))

DeclAt(p) == ChildAt(oin.structure.declarations[p[1]], Tail(p))

IsPrefix(p, q) == Len(p) <= Len(q) /\ SubSeq(q, 1, Len(p)) = p

\* q is a later sibling of p
LaterSibling(p, q) ==
    /\ Len(p) = Len(q)
    /\ SubSeq(p, 1, Len(p) - 1) = SubSeq(q, 1, Len(q) - 1)
    /\ p[Len(p)] < q[Len(q)]

\* the ids nodeMap gives the declaration node at path p
IdsOf(p) ==
    {k \in DOMAIN nodeMap :
        /\ nodeMap[k].fileNode = DeclAt(p)
        /\ nodeMap[k].depth = Len(p) - 1
        /\ ~(k = 1 /\ oin.structure.imports # <<>>)}

IdOf(p) == CHOOSE k \in IdsOf(p) : TRUE

\* C5: when buildOutline returns, the keys of nodeMap are exactly 1..N, N
\* being the number of declaration nodes reachable through children plus one
\* if imports is not empty; every declaration node has one id; the id of a
\* node is smaller than the ids of its descendants, every id in the subtree
\* of a node is smaller than the id of any later sibling of the node; and the
\* imports node, when there is one, has id 1.
C5_IdsArePreorder ==
    opc = "done" =>
        /\ DOMAIN nodeMap
              = 1..(Cardinality(DeclPaths) + IF oin.structure.imports # <<>> THEN 1 ELSE 0)
        /\ \A p \in DeclPaths : Cardinality(IdsOf(p)) = 1
        /\ \A p, q \in DeclPaths : (IsPrefix(p, q) /\ p # q) => IdOf(p) < IdOf(q)
        /\ \A p, q, r \in DeclPaths :
              (LaterSibling(p, r) /\ IsPrefix(p, q)) => IdOf(q) < IdOf(r)
        /\ oin.structure.imports # <<>> =>
              /\ nodeMap[1].fileNode = syntheticNode(oin.structure.imports)
              /\ nodeMap[1].fileNode.kind = "import"

\* C5 witness: buildOutline has returned for a structure with imports and
\* with a declaration that has a child with a child of its own, and a later
\* declaration after it.
C5_Witness ==
    /\ opc = "done"
    /\ oin.structure.imports # <<>>
    /\ \E p, r \in DeclPaths : Len(p) = 3 /\ LaterSibling(<<p[1]>>, r)

\* C6: when imports is not empty, nodeMap holds one synthetic import node,
\* under id 1: its from is the least from and its to the greatest to over the
\* imports, in whatever order they are listed, its snippet is the source text
\* from `from` to `to`, and its depth is 0; every other entry is a declaration.
C6_ImportGroupSpan ==
    (opc # "imports" /\ oin.structure.imports # <<>>) =>
        LET imports == oin.structure.imports
            group == nodeMap[1]
        IN /\ group.fileNode.kind = "import"
           /\ \A i \in 1..Len(imports) :
                 /\ group.fileNode.from <= imports[i].from
                 /\ group.fileNode.to >= imports[i].to
           /\ \E i \in 1..Len(imports) : group.fileNode.from = imports[i].from
           /\ \E i \in 1..Len(imports) : group.fileNode.to = imports[i].to
           /\ group.code = SubSeq(oin.doc, group.fileNode.from + 1, group.fileNode.to)
           /\ group.depth = 0
           /\ \A k \in DOMAIN nodeMap \ {1} :
                 \E p \in DeclPaths : nodeMap[k].fileNode = DeclAt(p)

\* C6 witness: the import group was made of imports that are not listed in
\* source order and that have a declaration between them.
C6_Witness ==
    /\ opc = "done"
    /\ \E i, j \in 1..Len(oin.structure.imports) :
          /\ i < j
          /\ oin.structure.imports[i].from > oin.structure.imports[j].to
          /\ \E d \in 1..Len(oin.structure.declarations) :
                /\ oin.structure.declarations[d].from > oin.structure.imports[j].to
                /\ oin.structure.declarations[d].to < oin.structure.imports[i].from

-----------------------------------------------------------------------------
(* What the concept classifier records of a tree *)

\* the places in the tree of the node an instance was recorded for
PathsFor(inst) ==
    {p \in Paths(cin.tree) :
        /\ At(cin.tree, p).name = inst.nodeName
        /\ At(cin.tree, p).from = inst.from
        /\ At(cin.tree, p).to = inst.to}

\* C8: any two instances extractConcepts has recorded have spans that are
\* disjoint, and neither is recorded for a node that is a descendant of the
\* node of the other.
C8_InstancesDoNotNest ==
    \A i, j \in 1..Len(instances) :
        i # j =>
            /\ \/ instances[i].to <= instances[j].from
               \/ instances[j].to <= instances[i].from
            /\ \A p \in PathsFor(instances[i]), q \in PathsFor(instances[j]) :
                  ~IsPrefix(p, q)

\* C8 witness: the traversal is over, an instance was recorded for a node
\* that has a descendant with a concept category, and a second instance was
\* recorded after it.
C8_Witness ==
    /\ cpc = ConceptsReturned
    /\ \E i \in 1..Len(instances) :
          /\ i < Len(instances)
          /\ \E p \in PathsFor(instances[i]) :
                \E q \in Paths(cin.tree) :
                    /\ IsPrefix(p, q) /\ p # q
                    /\ conceptMap(At(cin.tree, q).name) # None

-----------------------------------------------------------------------------
(* The body region of a declaration *)

\* the syntax nodes a FileNode of kind function or class can have been built from
DeclNodesFor(fileNode) ==
    {T \in NodesUnder(xin.tree) :
        /\ T.from = fileNode.from
        /\ T.to = fileNode.to
        /\ classifyNode(T, BuildLang) = fileNode.kind}

\* the paths from T into its body container, the container itself left out
BodyPaths(T) ==
    {p \in Paths(T) : Len(p) >= 2 /\ BodyOf(T) # NoNode /\ T.kids[p[1]] = BodyOf(T)}

\* the node at path p of T is inside the body of a function or class nested in T
InNestedBody(T, p) ==
    \E k \in 1..(Len(p) - 2) :
        LET nested == At(T, SubSeq(p, 1, k))
        IN /\ classifyNode(nested, BuildLang) \in {"function", "class"}
           /\ BodyOf(nested) # NoNode
           /\ At(T, SubSeq(p, 1, k + 1)) = BodyOf(nested)

\* the nodes in the body region of T and outside every nested body
RegionPaths(T) == {p \in BodyPaths(T) : ~InNestedBody(T, p)}

\* C11 as stated: for every function or class declaration D, each of the four
\* counts of D.childSummary is the number of matching nodes inside the body
\* region of D and outside the body of every function or class nested in D;
\* nodes in the parameter list or in a nested class body are not counted.
C11_CountsOfBodyRegion ==
    \A F \in FileNodesOf(structure) :
        F.kind \in {"function", "class"} =>
            \A T \in DeclNodesFor(F) :
                LET region == RegionPaths(T)
                    summary == F.childSummary
                IN /\ summary.callCount = CountAt(T, region, callNodes)
                   /\ summary.conditionCount = CountAt(T, region, conditionNodes)
                   /\ summary.loopCount = CountAt(T, region, loopNodes)
                   /\ summary.returnCount = CountAt(T, region, returnNodes)

\* the children of a body container that classifyNode recognises, in source order
ClassifiableKids(body) ==
    IF body = NoNode THEN <<>>
    ELSE SelectSeq(body.kids, LAMBDA kid : classifyNode(kid, BuildLang) # None)

\* a list of FileNodes is, entry by entry, what the syntax nodes were built into
BuiltFrom(fileNodes, nodes) ==
    /\ Len(fileNodes) = Len(nodes)
    /\ \A i \in 1..Len(nodes) :
          /\ fileNodes[i].from = nodes[i].from
          /\ fileNodes[i].to = nodes[i].to
          /\ fileNodes[i].kind = classifyNode(nodes[i], BuildLang)

\* C12 as stated: a node whose kind is not function or class has no children;
\* a node of kind function or class has as children, in source order, exactly
\* the classifiable immediate children of its first body container (Block,
\* Body, ClassBody, DeclarationList in that order), and none without a body.
C12_ChildrenOnlyOfBodies ==
    \A F \in FileNodesOf(structure) :
        IF F.kind \in {"function", "class"}
        THEN \A T \in DeclNodesFor(F) : BuiltFrom(F.children, ClassifiableKids(BodyOf(T)))
        ELSE F.children = <<>>

-----------------------------------------------------------------------------
(* Errors of the service *)

\* the errors the describe-file handler answers with
ServiceErrors == {a.error : a \in {b \in ServiceAnswers : "error" \in DOMAIN b}}

\* the update call j got an error back from describeFile
ReturnedError(j) == Returned(j) /\ "error" \in DOMAIN procs[j].result

\* the describeFile call of update k started after a call with the same
\* filename and content had returned an error, and has looked up the cache
LaterThanError(k) == procs[k].priorErrors # {} /\ procs[k].pc \in {"service", "done"}

\* a call that got an error went to the service, carries the error of the
\* answer, and its error is what the panel shows while it is the latest
ErrorIsReturnedAndShown ==
    \A j \in DOMAIN procs : ReturnedError(j) =>
        /\ procs[j].invoked
        /\ procs[j].result.error \in ServiceErrors
        /\ "text" \notin DOMAIN procs[j].result
        /\ j = requestId => display = ErrorView(j, procs[j].result.error)

\* the step in which describeFile returns an error leaves the cache as it was
ErrorLeavesCache ==
    \A j \in DOMAIN procs :
        (procs[j].pc = "service" /\ procs'[j].pc = "done"
            /\ "error" \in DOMAIN procs'[j].result) => cache' = cache

\* C13 as stated: when the service answers with an error, describeFile returns
\* that error, the cache is unchanged, the panel shows the error if the
\* request is still its latest, and a later describeFile call with the same
\* filename and content invokes the service again.
C13_LaterCallInvokesAgain ==
    /\ ErrorIsReturnedAndShown
    /\ \A k \in DOMAIN procs : LaterThanError(k) => procs[k].invoked

\* C13 amended: as stated, except that the later call invokes the service
\* again unless it finds the key in the cache, which holds then a text the
\* service returned to another call with that filename and content.
C13_ErrorsAreNotCached ==
    /\ [](/\ ErrorIsReturnedAndShown
          /\ \A k \in DOMAIN procs : LaterThanError(k) =>
                \/ procs[k].invoked
                \/ /\ Returned(k)
                   /\ "text" \in DOMAIN procs[k].result
                   /\ \E i \in Invokers(procs[k].filename, procs[k].content) :
                         /\ i \notin procs[k].priorErrors
                         /\ Returned(i)
                         /\ "text" \in DOMAIN procs[i].result
                         /\ procs[i].result.text = procs[k].result.text)
    /\ [][ErrorLeavesCache]_vars

\* C13 witness: a call was answered with an error that the panel shows, and
\* it is a later call with the same filename and content, sent to the service
\* again.
C13_Witness ==
    /\ requestId > 0
    /\ ReturnedError(requestId)
    /\ display.kind = "error"
    /\ procs[requestId].priorErrors # {}
    /\ cache = <<>>

-----------------------------------------------------------------------------
(* Unrecognised top-level nodes *)

\* classifyNode does not recognise the tag of the node
Unrecognised(node) == classifyNode(node, Lang) = None

\* the places of the top-level nodes visited so far that classifyNode recognises
RecognisedVisited ==
    SelectSeq([i \in 1..(xcur - 1) |-> i], LAMBDA i : ~Unrecognised(xin.tree.kids[i]))

RECURSIVE RouteOnly(_, _, _)
\* the structure after routing the top-level nodes at the given places, from
\* the n-th place on, and no other node
RouteOnly(st, places, n) ==
    IF n > Len(places) THEN st
    ELSE RouteOnly(walkJsNode(st, xin.tree.kids[places[n]], KidCtx(xin.tree, places[n]),
                              xin.doc, Lang),
                   places, n + 1)

\* the step of the walk over an unrecognised node adds nothing and moves on
UnrecognisedIsPassed ==
    (xpc = "walk" /\ xcur <= Len(xin.tree.kids) /\ xcur' # xcur
        /\ Unrecognised(xin.tree.kids[xcur]))
    => (structure' = structure /\ xcur' = xcur + 1 /\ xpc' = "walk")

\* C14: in the non-template walk, a top-level node whose tag classifyNode does
\* not recognise adds no entry to imports, exports or declarations and does
\* not stop the walk: the structure is at every moment what routing the
\* recognised nodes visited so far, and only them, gives.
C14_UnrecognisedIsSkipped ==
    /\ [](xpc = "walk" => structure = RouteOnly(FreshStructure(Lang), RecognisedVisited, 1))
    /\ [][UnrecognisedIsPassed]_vars

\* C14 witness: the walk has passed an unrecognised node and routed the
\* sibling after it.
C14_Witness ==
    /\ xpc = "walk"
    /\ xcur = 3
    /\ Unrecognised(xin.tree.kids[1])
    /\ ~Unrecognised(xin.tree.kids[2])
    /\ structure.declarations # <<>>

-----------------------------------------------------------------------------
(* A file with no recognised construct *)

\* the structure has no import, no export and no declaration
IsEmptyStructure(st) == st.imports = <<>> /\ st.exports = <<>> /\ st.declarations = <<>>

\* C15: for a FileStructure whose imports, exports and declarations are all
\* empty, buildOutline returns the empty outline text and an empty id index,
\* and fileSummary returns the sentence "This file is empty or contains no
\* recognizable constructs."
C15_EmptyStructure ==
    IsEmptyStructure(pin.structure) =>
        /\ opc = "done" => (OutlineText = <<>> /\ DOMAIN nodeMap = {})
        /\ ppc # "begin" =>
              annotated.fileSummary =
                  <<"T", "h", "i", "s", " ", "f", "i", "l", "e", " ", "i", "s",
                    " ", "e", "m", "p", "t", "y", " ", "o", "r", " ", "c", "o",
                    "n", "t", "a", "i", "n", "s", " ", "n", "o", " ", "r", "e",
                    "c", "o", "g", "n", "i", "z", "a", "b", "l", "e", " ", "c",
                    "o", "n", "s", "t", "r", "u", "c", "t", "s", ".">>

\* C15 witness: buildOutline and annotateFile have both returned for a file
\* with no recognised construct.
C15_Witness ==
    /\ IsEmptyStructure(pin.structure)
    /\ opc = "done"
    /\ ppc = "done"

-----------------------------------------------------------------------------
(* The summary of a function *)

LowerLetters == <<"a", "b", "c", "d", "e", "f", "g", "h", "i", "j", "k", "l", "m",
                  "n", "o", "p", "q", "r", "s", "t", "u", "v", "w", "x", "y", "z">>

UpperLetters == <<"A", "B", "C", "D", "E", "F", "G", "H", "I", "J", "K", "L", "M",
                  "N", "O", "P", "Q", "R", "S", "T", "U", "V", "W", "X", "Y", "Z">>

\* the text with its first letter in upper case
Capitalised(text) ==
    IF text # <<>> /\ text[1] \in LowerCase
    THEN <<UpperLetters[CHOOSE i \in 1..26 : LowerLetters[i] = text[1]]>> \o Tail(text)
    ELSE text

\* the annotations of the functions annotateFile has written so far
FunctionAnnotations ==
    {annotated.nodes[i] : i \in {j \in 1..Len(annotated.nodes) :
                                    annotated.nodes[j].node.kind = "function"}}

\* "<p (type)>" for a parameter with a type, "<p>" for one without
TakenAs(p) ==
    IF p.type = NoText THEN p.name ELSE p.name \o <<" ", "(">> \o p.type \o <<")">>

\* C19 as stated: for a function named foo with isAsync = true, params
\* [x: number] and returnType Promise<void> the summary is "Foo is an async
\* function that takes x (number) and returns Promise<void>."; in general it
\* is "<Name> is a[n async] function", then " that takes <p1 (type1)>, ..."
\* when params is not empty, then " and returns <returnType>" when there is a
\* return type, then a period.
C19_FunctionSummary ==
    \A a \in FunctionAnnotations :
        LET node == a.node IN
        /\ (/\ node.name = <<"f", "o", "o">>
            /\ node.isAsync
            /\ node.params = <<[name |-> <<"x">>, type |-> <<"n", "u", "m", "b", "e", "r">>]>>
            /\ node.returnType = <<"P", "r", "o", "m", "i", "s", "e", "<", "v", "o", "i", "d", ">">>)
           => a.summary =
                 <<"F", "o", "o", " ", "i", "s", " ", "a", "n", " ", "a", "s", "y", "n",
                   "c", " ", "f", "u", "n", "c", "t", "i", "o", "n", " ", "t", "h", "a",
                   "t", " ", "t", "a", "k", "e", "s", " ", "x", " ", "(", "n", "u", "m",
                   "b", "e", "r", ")">>
                 \o <<" ", "a", "n", "d", " ", "r", "e", "t", "u", "r", "n", "s", " ", "P",
                      "r", "o", "m", "i", "s", "e", "<", "v", "o", "i", "d", ">", ".">>
        /\ a.summary =
              Capitalised(humanizeName(node.name))
              \o (IF node.isAsync THEN <<" ", "i", "s", " ", "a", "n", " ", "a", "s", "y", "n", "c", " ", "f",
                                         "u", "n", "c", "t", "i", "o", "n">> ELSE <<" ", "i", "s", " ", "a", " ", "f", "u", "n", "c", "t", "i", "o", "n">>)
              \o (IF node.params # <<>>
                  THEN <<" ", "t", "h", "a", "t", " ", "t", "a", "k", "e", "s", " ">>
                       \o Join([i \in 1..Len(node.params) |-> TakenAs(node.params[i])],
                               <<",", " ">>)
                  ELSE <<>>)
              \o (IF node.returnType # NoText THEN <<" ", "a", "n", "d", " ", "r", "e", "t", "u", "r", "n", "s", " ">> \o node.returnType
                  ELSE <<>>)
              \o <<".">>

\* the function of the example: foo, async, (x: number), Promise<void>
IsExampleFunction(node) ==
    /\ node.name = <<"f", "o", "o">>
    /\ node.isAsync
    /\ node.params = <<[name |-> <<"x">>, type |-> <<"n", "u", "m", "b", "e", "r">>]>>
    /\ node.returnType = <<"P", "r", "o", "m", "i", "s", "e", "<", "v", "o", "i", "d", ">">>

\* C19 amended: the summary starts with the humanized name as humanizeName
\* returns it, whose first letter is left as it is in the source: for the
\* function of the example it is "foo is an async function that takes x
\* (number) and returns Promise<void>."; the rest is as stated.
C19_SummaryOfHumanizedName ==
    \A a \in FunctionAnnotations :
        LET node == a.node IN
        /\ IsExampleFunction(node)
           => a.summary =
                 <<"f", "o", "o", " ", "i", "s", " ", "a", "n", " ", "a", "s", "y", "n",
                   "c", " ", "f", "u", "n", "c", "t", "i", "o", "n", " ", "t", "h", "a",
                   "t", " ", "t", "a", "k", "e", "s", " ", "x", " ", "(", "n", "u", "m",
                   "b", "e", "r", ")">>
                 \o <<" ", "a", "n", "d", " ", "r", "e", "t", "u", "r", "n", "s", " ", "P",
                      "r", "o", "m", "i", "s", "e", "<", "v", "o", "i", "d", ">", ".">>
        /\ a.summary =
              humanizeName(node.name)
              \o (IF node.isAsync THEN <<" ", "i", "s", " ", "a", "n", " ", "a", "s", "y", "n", "c", " ", "f",
                                         "u", "n", "c", "t", "i", "o", "n">> ELSE <<" ", "i", "s", " ", "a", " ", "f", "u", "n", "c", "t", "i", "o", "n">>)
              \o (IF node.params # <<>>
                  THEN <<" ", "t", "h", "a", "t", " ", "t", "a", "k", "e", "s", " ">>
                       \o Join([i \in 1..Len(node.params) |-> TakenAs(node.params[i])],
                               <<",", " ">>)
                  ELSE <<>>)
              \o (IF node.returnType # NoText THEN <<" ", "a", "n", "d", " ", "r", "e", "t", "u", "r", "n", "s", " ">> \o node.returnType
                  ELSE <<>>)
              \o <<".">>

\* C19 witness: the function of the example has been annotated, and so has a
\* function without parameters and without return type.
C19_Witness ==
    /\ \E a \in FunctionAnnotations : IsExampleFunction(a.node)
    /\ \E a \in FunctionAnnotations : a.node.params = <<>> /\ a.node.returnType = NoText

-----------------------------------------------------------------------------
(* Requests in flight *)

\* the update calls whose request is with the service and not yet answered
InFlight == {i \in DOMAIN procs : procs[i].pc = "service"}

\* the requests sent for the update call i
RequestsOf(i) == {n \in DOMAIN sent : sent[n].call = i}

\* the step in which a request that is no longer the latest is answered
\* leaves what the panel shows as it is
SupersededAnswerIsNotShown ==
    \A i \in DOMAIN procs :
        (procs[i].pc = "service" /\ procs'[i].pc = "done" /\ i # requestId)
            => display' = display

\* C16 as stated: at every moment at most one request issued through the
\* BookPanel is in flight.
C16_AtMostOneInFlight == Cardinality(InFlight) <= 1

\* C16 amended: an update call has at most one request in flight, but the
\* requests of several update calls can be in flight together; of them only
\* the one of the latest update call is shown when it is answered.
C16_OnlyLatestInFlightIsShown ==
    /\ [](\A i \in DOMAIN procs :
             /\ Cardinality(RequestsOf(i)) <= 1
             /\ i \in InFlight => (i <= requestId /\ Cardinality(RequestsOf(i)) = 1))
    /\ [][SupersededAnswerIsNotShown]_vars

\* C16 witness: the requests of two update calls are in flight together.
C16_Witness == Cardinality(InFlight) >= 2

-----------------------------------------------------------------------------
(* The life of a cache entry *)

\* C17: once a key is present in the describeFile cache it stays present in
\* every later state: no describeFile call, service response or BookPanel
\* update removes a cache entry.
C17_CacheKeysStay == [][DOMAIN cache \subseteq DOMAIN cache']_vars

\* C17 witness: the cache holds the keys of two files, stored one after the
\* other, and a call has returned an error since.
C17_Witness ==
    /\ Cardinality(DOMAIN cache) = 2
    /\ \E j \in DOMAIN procs :
          ReturnedError(j) /\ hashKey(procs[j].filename, procs[j].content) \in DOMAIN cache

-----------------------------------------------------------------------------
(* The template traversal against the walk of a script *)

\* the enter callback is about to handle a node for the standard classifier:
\* one not seen, no template block, no component name, with a tag that
\* classifyNode recognises
EntersClassified(e) ==
    /\ ~AlreadySeen(xseen, e.node)
    /\ e.node.name \notin svelteBlockNodes
    /\ e.node.name # "ComponentName"
    /\ classifyNode(e.node, "js") # None

\* the step of the template traversal over such a node leaves the structure
\* that one iteration of walkJsNodes over the node would leave
RoutedAsWalkJsNodes ==
    (xpc = "svelte" /\ xcur' # xcur)
        => LET e == Preorder(xin.tree, Ctx(None, None))[xcur]
           IN EntersClassified(e)
                 => structure' = walkJsNode(structure, e.node, e.ctx, xin.doc, "js")

\* C18 as stated: in the template traversal a node the standard classifier
\* recognises is routed to the same lists with the same entries as walkJsNodes
\* would route it at top level; an export wrapper with a classifiable inner
\* declaration yields the declaration in declarations with isExported = TRUE
\* and the matching entry in exports.
C18_TemplateRoutesAsWalk == [][RoutedAsWalkJsNodes]_vars

-----------------------------------------------------------------------------
(* What the panel shows in the end *)

\* the panel shows the prose or the error describeFile returned to update n
Settled(n) ==
    /\ display.kind \in {"prose", "error"}
    /\ display.req = n
    /\ Returned(n)
    /\ display.kind = "prose" =>
          display = ProseView(n, procs[n].filename, procs[n].result)
    /\ display.kind = "error" => display = ErrorView(n, procs[n].result.error)

\* while no update call is made, what the panel shows of its latest request
\* stays as it is
SettledStays ==
    (Settled(requestId) /\ requestId' = requestId) => display' = display

\* C20: if the service answers every request, then after the last update call
\* the panel leaves the loading state and shows the prose or the error of
\* that call's request, and no later response changes what it shows.
C20_LastRequestIsShown ==
    /\ \A n \in 1..MaxUpdates : (requestId = n) ~> (requestId # n \/ Settled(n))
    /\ [][SettledStays]_vars

\* C20 witness: every request has been answered, the answer to an earlier one
\* came after the last update call and was dropped, and the panel shows what
\* the last one returned.
C20_Witness ==
    /\ requestId >= 2
    /\ Settled(requestId)
    /\ \A j \in 1..requestId : Returned(j)
    /\ \E j \in 1..(requestId - 1) : procs[j].invoked /\ procs[j].dropped

-----------------------------------------------------------------------------
(* The kind of a tag *)

\* the kinds in the order classifyNode tries them
KindOrder == <<"function", "class", "import", "export", "type", "variable", "control">>

\* the languages classifyNode is asked about; "svelte" has no table of its own
Languages == {"js", "py", "rs", "svelte"}

\* the tags of a kind in a language, read off the tables
TagsOf(kind, lang) ==
    LET own(table) == IF lang \in {"js", "py", "rs"} THEN table[lang] ELSE table["js"]
        tags(list) == {list[i] : i \in 1..Len(list)}
    IN CASE kind = "function" -> tags(own(funcNodes))
         [] kind = "class" -> tags(own(classNodes))
         [] kind = "import" -> tags(own(importNodes))
         [] kind = "export" -> tags(own(exportNodes))
         [] kind = "type" -> tags(own(typeNodes))
         [] kind = "variable" -> tags(own(varNodes))
         [] kind = "control" -> controlNodes

\* the first kind, in the order of KindOrder, whose tags contain the tag
FirstKind(tag, lang) ==
    LET hits == {i \in 1..Len(KindOrder) : tag \in TagsOf(KindOrder[i], lang)}
    IN IF hits = {} THEN None
       ELSE KindOrder[CHOOSE i \in hits : \A j \in hits : i <= j]

\* the entries of imports and declarations, at any depth
FiledNodes ==
    LET all == structure.imports \o structure.declarations
    IN UNION {FileNodesUnder(all[i]) : i \in 1..Len(all)}

\* C21: classifyNode gives a node the first kind, in the order function,
\* class, import, export, type, variable, control, whose tags for the language
\* contain the tag of the node, and no kind when none does; a language without
\* tables of its own is classified as js; two nodes with the same tag get the
\* same kind; and every entry the walk files under imports or declarations
\* has the kind of the tag of a node with its span.
C21_FirstKindOfTag ==
    LET nodes == NodesUnder(xin.tree)
        named(tag) == {n \in nodes : n.name = tag}
    IN /\ \A l \in Languages :
             /\ \A n \in nodes :
                   /\ classifyNode(n, l) = FirstKind(n.name, l)
                   /\ l \notin {"js", "py", "rs"} => classifyNode(n, l) = classifyNode(n, "js")
             /\ \A tag \in {n.name : n \in nodes} :
                   Cardinality({classifyNode(n, l) : n \in named(tag)}) = 1
       /\ Lang # "svelte" =>
             \A f \in FiledNodes :
                \E T \in nodes :
                   T.from = f.from /\ T.to = f.to /\ FirstKind(T.name, Lang) = f.kind

\* C21 witness: the walk of a Python file has filed a function and a variable
\* under declarations, each by the Python tables; the tree holds a tag no
\* table knows, and a tag that is a function in Python and nothing in js.
C21_Witness ==
    /\ Lang = "py"
    /\ xpc = "walk"
    /\ \E f, g \in FiledNodes : f.kind = "function" /\ g.kind = "variable"
    /\ \E n \in NodesUnder(xin.tree) : FirstKind(n.name, "py") = None
    /\ \E n \in NodesUnder(xin.tree) :
          FirstKind(n.name, "py") = "function" /\ FirstKind(n.name, "js") = None

-----------------------------------------------------------------------------
(* The entries of the template traversal *)

\* the entries of imports and declarations of the structure being filled
TopEntries(st) == st.imports \o st.declarations

\* one of the three branches of the enter callback takes the node
SvelteMatched(node) ==
    \/ node.name \in svelteBlockNodes
    \/ node.name = "ComponentName"
    \/ classifyNode(node, "js") # None

\* the nodes of the tree in the order tree.iterate enters them
SvelteOrder == Preorder(xin.tree, Ctx(None, None))

\* the places, in the order of iteration, of the nodes inside the node at place i
Inside(i) == (i + 1)..(i + SvelteOrder[i].size - 1)

\* a call of the enter callback on a matched node adds at most one entry and
\* moves past the whole subtree of the node; on any other node it adds nothing
MatchedIsLeftBehind ==
    (xpc = "svelte" /\ xcur' # xcur) =>
        LET e == SvelteOrder[xcur] IN
        IF SvelteMatched(e.node)
        THEN /\ xcur' = xcur + e.size
             /\ Len(TopEntries(structure')) <= Len(TopEntries(structure)) + 1
        ELSE /\ xcur' = xcur + 1
             /\ structure' = structure

\* the spans of two entries have no offset in common
Apart(f, g) == f.to <= g.from \/ g.to <= f.from

\* C22: in the template traversal, a matched node gives at most one entry and
\* none of its descendants is entered; every entry of imports and declarations
\* has the span of a matched node that was entered, and no two of these
\* entries have overlapping spans.
C22_EntriesDoNotOverlap ==
    /\ [](Lang = "svelte" =>
            LET entries == TopEntries(structure) IN
            /\ \A i, j \in 1..Len(entries) : i # j => Apart(entries[i], entries[j])
            /\ \A i \in 1..Len(entries) :
                  \E k \in 1..Len(SvelteOrder) :
                     /\ xpc = "svelte" => k < xcur
                     /\ SvelteMatched(SvelteOrder[k].node)
                     /\ SvelteOrder[k].node.from = entries[i].from
                     /\ SvelteOrder[k].node.to = entries[i].to)
    /\ [][MatchedIsLeftBehind]_vars

\* C22 witness: the traversal has matched a block whose subtree holds a
\* component usage, has left the subtree behind and has matched a later node:
\* two entries, none for the component inside the block.
C22_Witness ==
    /\ Lang = "svelte"
    /\ xpc = "svelte"
    /\ Len(TopEntries(structure)) = 2
    /\ \E k \in 1..Len(SvelteOrder) :
          /\ SvelteOrder[k].node.name \in svelteBlockNodes
          /\ \E d \in Inside(k) : SvelteOrder[d].node.name = "ComponentName"
          /\ xcur > k + SvelteOrder[k].size

-----------------------------------------------------------------------------
(* The tooltip against the recorded bands *)

\* the path to the innermost node at the position of the last hover
HoverPath == resolveInner(cin.tree, tip.at)

\* the prefixes of the path whose node is in the concept table: the
\* classified nodes among the innermost node and its ancestors
ClassifiedAbove ==
    {k \in 0..Len(HoverPath) :
        conceptMap(NodeAt(cin.tree, SubSeq(HoverPath, 1, k)).name) # None}

\* the band of an instance extractConcepts has recorded
InstanceBand(inst) == [pos |-> inst.from, end |-> inst.to, category |-> inst.category]

\* the band of a mark buildDeco has added
MarkBand(mark) == [pos |-> mark.from, end |-> mark.to, category |-> mark.class[2]]

\* the marks of buildDeco when the whole document is visible
Marks == buildDeco(cin.tree, 0, Len(cin.doc))

\* the tooltip shows a band exactly when a node among the innermost node and
\* its ancestors is classified, and then the band of the one nearest the root
TooltipIsOutermostAbove ==
    /\ tip.band # NoTip <=> ClassifiedAbove # {}
    /\ tip.band # NoTip =>
          \E k \in ClassifiedAbove :
             /\ \A j \in ClassifiedAbove : k <= j
             /\ tip.band = BandOf(NodeAt(cin.tree, SubSeq(HoverPath, 1, k)))

\* C23 as stated: at every position the tooltip shows the band that
\* extractConcepts and buildDeco record for the character at the position,
\* the band of the outermost classified node among the innermost node and its
\* ancestors, and shows none where they record none.
C23_TooltipIsRecordedBand ==
    cpc = ConceptsReturned =>
        /\ TooltipIsOutermostAbove
        /\ \A i \in 1..Len(instances) :
              (instances[i].from <= tip.at /\ tip.at < instances[i].to)
                  => tip.band = InstanceBand(instances[i])
        /\ \A i \in 1..Len(Marks) :
              (Marks[i].from <= tip.at /\ tip.at < Marks[i].to)
                  => tip.band = MarkBand(Marks[i])

\* C23, amended: the tooltip shows a band exactly when a node among the
\* innermost node at the position and its ancestors is classified, and then
\* the band of the outermost of them; at a position strictly inside a band
\* that extractConcepts and buildDeco record it shows that band, every band
\* it shows is recorded by both and has the position strictly inside, and at
\* the first and the last offset of a recorded band it shows nothing.
C23_TooltipInsideRecordedBand ==
    cpc = ConceptsReturned =>
        /\ TooltipIsOutermostAbove
        /\ \A i \in 1..Len(instances) :
              /\ (instances[i].from < tip.at /\ tip.at < instances[i].to)
                    => tip.band = InstanceBand(instances[i])
              /\ tip.at \in {instances[i].from, instances[i].to} => tip.band = NoTip
        /\ \A i \in 1..Len(Marks) :
              (Marks[i].from < tip.at /\ tip.at < Marks[i].to)
                  => tip.band = MarkBand(Marks[i])
        /\ tip.band # NoTip =>
              /\ tip.band.pos < tip.at /\ tip.at < tip.band.end
              /\ \E i \in 1..Len(instances) : tip.band = InstanceBand(instances[i])
              /\ \E i \in 1..Len(Marks) : tip.band = MarkBand(Marks[i])

\* C23 witness: the pointer rests inside a classified node that lies inside
\* another classified node, and the tooltip shows the band of the outer one.
C23_Witness ==
    /\ cpc = ConceptsReturned
    /\ Cardinality(ClassifiedAbove) >= 2
    /\ tip.band # NoTip
    /\ \E i \in 1..Len(instances) : tip.band = InstanceBand(instances[i])

-----------------------------------------------------------------------------
(* The detail of a function *)

\* the places where the text w occurs in the text s
Occurs(s, w) == {i \in 1..(Len(s) - Len(w) + 1) : SubSeq(s, i, i + Len(w) - 1) = w}

\* the first place where w occurs in s, or 0
FirstAt(s, w) ==
    IF Occurs(s, w) = {} THEN 0
    ELSE CHOOSE i \in Occurs(s, w) : \A j \in Occurs(s, w) : i <= j

\* the words that open the four parts of a detail, in their order
PartWords == <<<<"c", "a", "l", "l", "s", " ">>, <<"c", "h", "e", "c", "k", "s", " ">>, <<"u", "s", "e", "s", " ">>, <<"r", "e", "t", "u", "r", "n", "s", " ">>>>

\* which of the four parts the summary asks for: callee names recorded,
\* conditions, loops, returns
PartsAsked(cs) ==
    <<Len(cs.calledFunctions) > 0, cs.conditionCount > 0, cs.loopCount > 0,
      cs.returnCount > 0>>

-----------------------------------------------------------------------------
(* The groups of the file summary *)

\* the kinds of the declarations of the file, each with its members
SummaryGroups == groupByKind(pin.structure.declarations)

\* the count of a group as the summary writes it
CountText(group) == plural(Len(group.nodes), kindLabel(group.kind))

\* what follows the count of the group in the file summary
AfterCount(group) ==
    LET at == FirstAt(annotated.fileSummary, CountText(group))
    IN SubSeq(annotated.fileSummary, at + Len(CountText(group)), Len(annotated.fileSummary))

\* the summary lists names in parentheses after the count of the group
NamesListed(group) == StartsWith(AfterCount(group), <<" ", "(">>)

\* the text between the parentheses
ListedText(group) == BeforeFirst(SubSeq(AfterCount(group), 3, Len(AfterCount(group))), {")"})

\* the humanized names of every member of the group, as a list
AllNames(group) ==
    Join([i \in 1..Len(group.nodes) |-> humanizeName(group.nodes[i].name)], <<",", " ">>)

\* C25: in the file summary, every kind of declaration present is shown with
\* its pluralized count; the names of its members follow in parentheses
\* exactly when the kind has at most 4 members, and when names are listed
\* they are the humanized names of all the members of the kind.
C25_NamesOfSmallGroups ==
    ppc # "begin" =>
        \A g \in 1..Len(SummaryGroups) :
            LET group == SummaryGroups[g] IN
            /\ FirstAt(annotated.fileSummary, CountText(group)) > 0
            /\ NamesListed(group) <=> Len(group.nodes) <= 4
            /\ NamesListed(group) => ListedText(group) = AllNames(group)

-----------------------------------------------------------------------------
(* The summaries of the pipeline *)

\* the counters are not negative, no callee is listed twice, and there are
\* no more callees than calls
GoodSummary(cs) ==
    /\ cs.callCount >= 0 /\ cs.conditionCount >= 0
    /\ cs.loopCount >= 0 /\ cs.returnCount >= 0
    /\ \A i, j \in 1..Len(cs.calledFunctions) :
          i # j => cs.calledFunctions[i] # cs.calledFunctions[j]
    /\ Len(cs.calledFunctions) <= cs.callCount

\* the FileNodes the extractor has built: those of the structure being filled
\* and of the structures returned, at any depth
ExtractedNodes ==
    FileNodesOf(structure) \cup UNION {FileNodesOf(runs[r]) : r \in 1..Len(runs)}

\* the FileNodes the outline builder has entered in nodeMap
OutlinedNodes == {nodeMap[id].fileNode : id \in DOMAIN nodeMap}

\* the FileNodes the annotation builder has annotated
AnnotatedNodes == {annotated.nodes[i].node : i \in 1..Len(annotated.nodes)}

\* C26: every ChildSummary of a FileNode built by the extractor, entered by
\* the outline builder or annotated by the annotation builder, the import
\* groups the two builders make included, has counters that are not negative
\* and a calledFunctions list without duplicates that is no longer than
\* callCount.
C26_SummariesAreSound ==
    /\ \A f \in ExtractedNodes : GoodSummary(f.childSummary)
    /\ ppc # None =>
          /\ \A f \in OutlinedNodes : GoodSummary(f.childSummary)
          /\ \A f \in AnnotatedNodes : GoodSummary(f.childSummary)

\* C26 witness: the extractor has returned a function whose body calls the
\* same callee more than once, and both builders have gone through the
\* structure, its function and an import group included.
C26_Witness ==
    /\ ppc = "done"
    /\ opc = "done"
    /\ \E f \in AnnotatedNodes :
          /\ f.kind = "function"
          /\ f \in OutlinedNodes
          /\ f \in ExtractedNodes
          /\ f.childSummary.callCount > Len(f.childSummary.calledFunctions)
          /\ f.childSummary.calledFunctions # <<>>
    /\ annotated.nodes[1].node.kind = "import"
    /\ annotated.nodes[1].node \notin ExtractedNodes
    /\ nodeMap[1].fileNode.kind = "import"

-----------------------------------------------------------------------------
(* The span of the import group in the two builders *)

\* the imports of a structure are in source order and do not overlap
ImportsInSourceOrder(st) ==
    \A i, j \in 1..Len(st.imports) : i < j => st.imports[i].to <= st.imports[j].from

\* both builders have made the import group of the structure handed to them
BothGroupsMade ==
    /\ ppc \in {"declarations", "done"}
    /\ opc \in {"walk", "done"}
    /\ Len(pin.structure.imports) > 0

\* C30: the imports of every structure extractFileStructure fills or returns
\* are in increasing source order without overlap, and for the structure it
\* returns the import group of annotateFile (from of the first import, to of
\* the last) has the span of the import group of buildOutline (least from,
\* greatest to), and the two groups hold the same code.
C30_ImportGroupSpansAgree ==
    /\ ImportsInSourceOrder(structure)
    /\ \A r \in 1..Len(runs) : ImportsInSourceOrder(runs[r])
    /\ ppc # None =>
          (BothGroupsMade =>
              /\ annotated.nodes[1].node.kind = "import"
              /\ nodeMap[1].fileNode.kind = "import"
              /\ annotated.nodes[1].node.from = nodeMap[1].fileNode.from
              /\ annotated.nodes[1].node.to = nodeMap[1].fileNode.to
              /\ annotated.nodes[1].node.from = firstFrom(pin.structure.imports)
              /\ annotated.nodes[1].node.to = lastTo(pin.structure.imports)
              /\ annotated.nodes[1].code = nodeMap[1].code)

\* C30 witness: the extractor has returned a structure with two imports and
\* both builders have made their import group for it.
C30_Witness ==
    /\ ppc # None
    /\ BothGroupsMade
    /\ Len(pin.structure.imports) = 2
    /\ pin.structure = runs[Len(runs)]
    /\ annotated.nodes[1].node.from < pin.structure.imports[2].from
    /\ nodeMap[1].fileNode.to = pin.structure.imports[2].to

-----------------------------------------------------------------------------
(* The symbol map a request renders with *)

\* the entries an update call makes when it is the one the view was loaded
\* for: the symbols of its own content, sliced out of that content
OwnSymbols(p) ==
    IF p.view
    THEN IndexedSymbols({}, Extracted[p.content.src][p.filename], p.content)
    ELSE {}

\* C27 as stated: whenever the panel shows the prose of a request, the symbol
\* map holds only symbols that request indexed, each mapped to a slice of that
\* request's content; a call superseded during its 200 ms delay has added no
\* entry the later request renders with.
C27_MapHoldsOwnSymbolsOnly ==
    display.kind = "prose" => symbolCodeMap \subseteq OwnSymbols(procs[display.req])

-----------------------------------------------------------------------------
(* A response that arrives too late *)

\* the calls that had returned a text of the service, and were dropped by the
\* panel as stale, before call j started its describeFile
DroppedBefore(j) ==
    {pr[1] : pr \in {pr \in procs[j].prior :
                        procs[pr[1]].invoked /\ procs[pr[1]].dropped}}

\* the step in which the service answers call id with a text
AnsweredWithText(id) ==
    /\ procs[id].pc = "service"
    /\ procs'[id].pc = "done"
    /\ "text" \in DOMAIN procs'[id].result

\* describeFile has stored the text by the time BookPanel looks at the
\* request id, whether the panel keeps the response or drops it
StoredBeforeStaleCheck ==
    \A id \in DOMAIN procs : AnsweredWithText(id) =>
        /\ CacheGet(hashKey(procs[id].filename, procs[id].content))' =
               procs'[id].result.text
        /\ procs'[id].dropped = (id # requestId)

\* C28: a text the service returns is in the cache under the key of its call
\* when describeFile returns, also when BookPanel then drops the response as
\* stale; an update call with the same filename and content whose describeFile
\* starts after such a dropped response does not invoke the service and
\* returns a text the service returned for that filename and content.
C28_StaleResponseIsCached ==
    /\ [][StoredBeforeStaleCheck]_vars
    /\ [](\A j \in DOMAIN procs : (Returned(j) /\ DroppedBefore(j) # {}) =>
             /\ ~procs[j].invoked
             /\ "text" \in DOMAIN procs[j].result
             /\ \E k \in Invokers(procs[j].filename, procs[j].content) :
                    /\ Returned(k)
                    /\ "text" \in DOMAIN procs[k].result
                    /\ procs[k].result.text = procs[j].result.text)

\* C28 witness: a call answered by the service with a text was dropped as
\* stale, and a later call for the same file has returned without invoking the
\* service and is shown.
C28_Witness ==
    \E j \in DOMAIN procs :
        /\ Returned(j)
        /\ DroppedBefore(j) # {}
        /\ ~procs[j].invoked
        /\ display.kind = "prose"
        /\ display.req = j

-----------------------------------------------------------------------------
(* The service calls made for a key *)

\* the key of an update call
KeyOf(id) == hashKey(procs[id].filename, procs[id].content)

\* the requests sent to the service for a key
SentFor(key) == {n \in DOMAIN sent : KeyOf(sent[n].call) = key}

\* the text cached for a key stays what it is
CachedTextStays == \A key \in DOMAIN cache : CacheGet(key)' = cache[key]

\* C29 as stated: in every interleaving the service is invoked at most once
\* for each key that is cached, and the text cached for a key never changes
\* once it has been set.
C29_OneInvocationPerCachedKey ==
    /\ [](\A key \in DOMAIN cache : Cardinality(SentFor(key)) <= 1)
    /\ [][CachedTextStays]_vars

\* a call goes to the service only when it finds no text cached for its key,
\* and goes once
InvokedOnMiss ==
    \A id \in DOMAIN procs : (~procs[id].invoked /\ procs'[id].invoked) =>
        /\ KeyOf(id) \notin DOMAIN cache
        /\ sent' = Append(sent, sent'[Len(sent')])
        /\ sent'[Len(sent')].call = id

\* the cache changes only when the service answers a call with a text, and
\* then holds that text under the key of the call
SetByAnswer ==
    /\ cache' # cache =>
          \E id \in DOMAIN procs : AnsweredWithText(id) /\ procs[id].invoked
    /\ \A id \in DOMAIN procs : AnsweredWithText(id) =>
          cache' = [k \in DOMAIN cache \cup {KeyOf(id)} |->
                       IF k = KeyOf(id) THEN procs'[id].result.text ELSE cache[k]]

\* C29 amended: every describeFile call invokes the service at most once, and
\* only when no text is cached for its key at that moment, so the calls for a
\* key that start before the first text for it is cached each invoke the
\* service, and no call invokes it afterwards; the text cached for a key is
\* the text of the latest answer the service gave for that key, and changes
\* whenever a later answer for the key carries another text.
C29_InvokedOnMissSetByAnswer ==
    /\ [][InvokedOnMiss /\ SetByAnswer]_vars
    /\ [](\A id \in DOMAIN procs :
             Cardinality({n \in DOMAIN sent : sent[n].call = id}) =
                 IF procs[id].invoked THEN 1 ELSE 0)

\* C29 witness: two calls with the same key were both sent to the service
\* before either was answered, both have been answered with a text, the two
\* texts differ and the cache holds one of them.
C29_Witness ==
    \E i, j \in DOMAIN procs :
        /\ i # j
        /\ KeyOf(i) = KeyOf(j)
        /\ procs[i].invoked /\ procs[j].invoked
        /\ Returned(i) /\ Returned(j)
        /\ "text" \in DOMAIN procs[i].result /\ "text" \in DOMAIN procs[j].result
        /\ procs[i].result.text # procs[j].result.text
        /\ CacheGet(KeyOf(i)) \in {procs[i].result.text, procs[j].result.text}

====
